---- MODULE Spec2Model ----
(***************************************************************************)
(* WHOIS lookup with server fallback and the TLS certificate probe of      *)
(* utils_api (pkg/utils/domain), together with the two HTTP handlers that  *)
(* call them (handlers/network_handlers.go).                               *)
(*                                                                         *)
(* Strings the code inspects (domains, hosts, ports) are sequences of      *)
(* one-character strings; host names of WHOIS servers, which the code only *)
(* passes on, are atomic strings.  Time is in seconds and advances in      *)
(* steps of 5, the common divisor of the timeouts in the code.             *)
(***************************************************************************)
EXTENDS Integers, Sequences, FiniteSets, TLC

\* ------------------------------------------------------------------ bounds
MaxLabels == 2      \* labels in a generated domain input
MaxCerts  == 2      \* certificates a TLS peer presents
MaxLines  == 2      \* lines in a generated WHOIS response
MaxItems  == 3      \* items in a slice handed to removeDuplicates

\* ------------------------------------------------------- program constants
ConnectTimeout      == 10   \* seconds, net.DialTimeout / net.Dialer.Timeout
OperationDeadline   == 15   \* seconds, conn.SetDeadline
WhoisHandlerTimeout == 30   \* seconds, context.WithTimeout in WhoisLookupHandler
SSLHandlerTimeout   == 20   \* seconds, context.WithTimeout in SSLCheckHandler
DefaultPort         == 443
MaxPort             == 65535
StatusOK            == 200
StatusBadRequest    == 400
WhoisPort           == 43

Callers == {1, 2}

\* ----------------------------------------------------------------- strings
LowerOf ==
  [ch \in {"A","B","C","D","E","F","G","H","I","J","K","L","M",
           "N","O","P","Q","R","S","T","U","V","W","X","Y","Z"} |->
     CASE ch = "A" -> "a" [] ch = "B" -> "b" [] ch = "C" -> "c" [] ch = "D" -> "d"
       [] ch = "E" -> "e" [] ch = "F" -> "f" [] ch = "G" -> "g" [] ch = "H" -> "h"
       [] ch = "I" -> "i" [] ch = "J" -> "j" [] ch = "K" -> "k" [] ch = "L" -> "l"
       [] ch = "M" -> "m" [] ch = "N" -> "n" [] ch = "O" -> "o" [] ch = "P" -> "p"
       [] ch = "Q" -> "q" [] ch = "R" -> "r" [] ch = "S" -> "s" [] ch = "T" -> "t"
       [] ch = "U" -> "u" [] ch = "V" -> "v" [] ch = "W" -> "w" [] ch = "X" -> "x"
       [] ch = "Y" -> "y" [] ch = "Z" -> "z"]

\* strings.ToLower
ToLower(s) == [i \in 1..Len(s) |-> IF s[i] \in DOMAIN LowerOf THEN LowerOf[s[i]] ELSE s[i]]

UpperOf == [ch \in { LowerOf[u] : u \in DOMAIN LowerOf } |->
              CHOOSE u \in DOMAIN LowerOf : LowerOf[u] = ch]

\* strings.ToUpper
ToUpper(s) == [i \in 1..Len(s) |-> IF s[i] \in DOMAIN UpperOf THEN UpperOf[s[i]] ELSE s[i]]

IsSpace(ch) == ch \in {" ", "\t", "\n", "\r"}

\* strings.TrimSpace: the text from the first to the last non-space character
TrimSpace(s) ==
  LET solid == { i \in 1..Len(s) : ~IsSpace(s[i]) }
  IN  IF solid = {} THEN <<>>
      ELSE SubSeq(s, CHOOSE i \in solid : \A j \in solid : i <= j,
                     CHOOSE i \in solid : \A j \in solid : j <= i)

\* strings.Split(s, sep) for a one-character separator: the texts before,
\* between and after the separators, so always at least one part
Split(s, sep) ==
  LET seps   == { i \in 1..Len(s) : s[i] = sep }
      n      == Cardinality(seps)
      at(k)  == CHOOSE i \in seps : Cardinality({ j \in seps : j < i }) = k - 1
      from(k) == IF k = 1 THEN 1 ELSE at(k - 1) + 1
      to(k)   == IF k = n + 1 THEN Len(s) ELSE at(k) - 1
  IN  [k \in 1..(n + 1) |-> SubSeq(s, from(k), to(k))]

\* ------------------------------------------------------------ WHOIS servers
TldCom     == <<"c","o","m">>
TldNet     == <<"n","e","t">>
TldOrg     == <<"o","r","g">>
TldInfo    == <<"i","n","f","o">>
TldBiz     == <<"b","i","z">>
TldDefault == <<"d","e","f","a","u","l","t">>

\* var WhoisServers = map[string][]string{...}
WhoisServersTable ==
  (TldCom     :> <<"whois.verisign-grs.com", "whois.markmonitor.com">>) @@
  (TldNet     :> <<"whois.verisign-grs.com">>) @@
  (TldOrg     :> <<"whois.pir.org">>) @@
  (TldInfo    :> <<"whois.afilias.net">>) @@
  (TldBiz     :> <<"whois.neulevel.biz">>) @@
  (TldDefault :> <<"whois.iana.org", "whois.internic.net">>)

\* a Go map read: the zero value (nil slice) for a missing key
MapGet(table, key) == IF key \in DOMAIN table THEN table[key] ELSE <<>>

\* ------------------------------------------------------------------ errors
Nil == [kind |-> "nil"]

\* fmt.Errorf("...") without operands, an error of the net package,
\* fmt.Errorf("...: %w", err)
PlainError(msg)    == [kind |-> "plain", msg |-> msg]
NetError(why)      == [kind |-> "net", msg |-> why]
WrapError(what, e) == [kind |-> "wrap", msg |-> what, Err |-> e]

ErrEmptyDomain      == PlainError("domain cannot be empty")
ErrInvalidFormat(d) == [kind |-> "invalid domain format", domain |-> d]

\* &WhoisError{Domain: domain, Err: err, Server: server}
WhoisError(d, e, sv) == [kind |-> "WhoisError", Domain |-> d, Err |-> e, Server |-> sv]

\* &SSLError{Domain: domain, Err: err}
SSLError(d, e) == [kind |-> "SSLError", Domain |-> d, Err |-> e]

\* err.Error(): the message as a sequence of text fragments
RECURSIVE ErrorString(_)
ErrorString(e) ==
  CASE e.kind = "nil"   -> <<>>
    [] e.kind = "plain" -> <<e.msg>>
    [] e.kind = "net"   -> <<e.msg>>
    [] e.kind = "wrap"  -> <<e.msg, ": ">> \o ErrorString(e.Err)
    [] e.kind = "invalid domain format" -> <<"invalid domain format: ">> \o e.domain
    [] e.kind = "WhoisError" ->
         <<"whois lookup failed for ">> \o e.Domain \o <<" via ", e.Server, ": ">>
           \o ErrorString(e.Err)
    [] e.kind = "SSLError" ->
         <<"SSL check failed for ">> \o e.Domain \o <<": ">> \o ErrorString(e.Err)

\* ------------------------------------------------------------ GetWhoisInfo
\* domain = strings.ToLower(strings.TrimSpace(domain))
NormalizeDomain(raw) == ToLower(TrimSpace(raw))

\* the format check with the bound off by one: a name without '.' passes
InvalidFormatOffByOne(parts) == Len(parts) < 1

\* len(parts) < 2
InvalidFormat(parts) == Len(parts) < 2

\* the first label taken for the TLD
TldOfFirstLabel(parts) == parts[1]

\* tld := parts[len(parts)-1]
TldOf(parts) == parts[Len(parts)]

\* the checks of GetWhoisInfo that precede the server loop
ValidateDomain(raw) ==
  LET d     == NormalizeDomain(raw)
      parts == Split(d, ".")
  IN  IF d = <<>> THEN [err |-> ErrEmptyDomain, domain |-> d, tld |-> <<>>]
      ELSE IF InvalidFormat(parts)
        THEN [err |-> ErrInvalidFormat(d), domain |-> d, tld |-> <<>>]
      ELSE [err |-> Nil, domain |-> d, tld |-> TldOf(parts)]

\* the default list stored in the table under a TLD that has no entry
ReadServersMemoized(table, tld) ==
  LET s == MapGet(table, tld)
  IN  [servers |-> IF Len(s) = 0 THEN MapGet(table, TldDefault) ELSE s,
       table   |-> IF tld \in DOMAIN table THEN table
                   ELSE (tld :> MapGet(table, TldDefault)) @@ table]

\* the list of the TLD taken as it is, without the default list
ReadServersNoDefault(table, tld) == [servers |-> MapGet(table, tld), table |-> table]

\* servers := WhoisServers[tld]; if len(servers) == 0 { servers = WhoisServers["default"] }
\* together with the table as the two map reads leave it
ReadServers(table, tld) ==
  LET s == MapGet(table, tld)
  IN  [servers |-> IF Len(s) = 0 THEN MapGet(table, TldDefault) ELSE s,
       table   |-> table]

\* for _, server := range servers: the element the loop is at
CurrentServer(svs, i) == svs[i]

\* the loop staying at the server that failed
NextIndexRetry(i) == i

\* for _, server := range servers: the position of the next element
NextIndex(i) == i + 1

\* the first error kept instead of the last
LastErrKeepFirst(old, new) == IF old = Nil THEN new ELSE old

\* lastErr = &WhoisError{...}
LastErrUpdate(old, new) == new

\* the record built without its server
parseWhoisResponseNoServer(d, rawData, server) ==
  [Domain |-> d, RawData |-> rawData, WhoisServer |-> ""]

\* parseWhoisResponse: the fields set from the arguments
parseWhoisResponse(d, rawData, server) ==
  [Domain |-> d, RawData |-> rawData, WhoisServer |-> server]

\* response.WriteString(scanner.Text() + "\n") for every line read
RECURSIVE RawDataOf(_)
RawDataOf(lines) ==
  IF lines = <<>> THEN <<>> ELSE Head(lines) \o <<"\n">> \o RawDataOf(Tail(lines))

\* rawData == ""
EmptyResponse(rawData) == Len(rawData) = 0

\* the query ended by a line feed alone
QueryBytesLF(d) == d \o <<"\n">>

\* query := domain + "\r\n"
QueryBytes(d) == d \o <<"\r", "\n">>

\* how long a blocking call may take, up to its limit
Durations(limit) == { t \in {0, 5, 10, 15} : t <= limit }

\* net.DialTimeout("tcp", server+":43", 10*time.Second) that ends after d seconds
DialResult(d, o) == IF d >= ConnectTimeout THEN "i/o timeout" ELSE o

\* a deadline set anew before every Write and Read
DeadlineRenewed(set, now) == now + OperationDeadline

\* conn.SetDeadline(time.Now().Add(15 * time.Second)), once per connection: the
\* deadline in force for an operation that starts at time now
DeadlineInForce(set, now) == set

\* a Write or Read under conn.SetDeadline that ends at time t
DeadlineResult(t, dl, o) == IF t >= dl THEN "i/o timeout" ELSE o

\* the connection closed on every path but the empty response
ConnsLeakOnEmpty(cs, path) ==
  IF path = "empty response" THEN cs ELSE SubSeq(cs, 1, Len(cs) - 1)

\* defer conn.Close(): the connections left open when the function returns on
\* the given path
ConnsAfterReturn(cs, path) == SubSeq(cs, 1, Len(cs) - 1)

\* ------------------------------------------------------------------ inputs
Labels ==
  { <<>>, <<"a">>, <<"C","o","m">>, TldNet, TldOrg, TldInfo, TldBiz, <<"x","y">>,
    TldDefault }

RECURSIVE Join(_)
Join(ls) ==
  IF ls = <<>> THEN <<>>
  ELSE IF Len(ls) = 1 THEN ls[1]
  ELSE ls[1] \o <<".">> \o Join(Tail(ls))

LabelSeqs(n) == UNION { [1..k -> Labels] : k \in 0..n }

\* domain query parameters: dotted names, bare and surrounded by white space
DomainInputs ==
  { Join(ls) : ls \in LabelSeqs(MaxLabels) } \cup
  { <<" ">> \o Join(ls) \o <<"\t", " ">> : ls \in LabelSeqs(MaxLabels) }

\* the small set of inputs
FewDomainInputs == { <<"a", ".", "n", "e", "t">>, <<"a", ".", "x", "y">>, <<"a">>, <<" ">> }

\* what a server sends before it closes: the lines the scanner returns
Responses == { <<>>, << <<>> >>, << <<"o","k">> >> }

WhoisQueries     == { [domain |-> d] : d \in DomainInputs }
FewWhoisQueries == { [domain |-> d] : d \in FewDomainInputs }

\* strconv.Atoi: an optional sign, then one or more decimal digits
Digits == {"0","1","2","3","4","5","6","7","8","9"}
DigitValue(ch) ==
  CASE ch = "0" -> 0 [] ch = "1" -> 1 [] ch = "2" -> 2 [] ch = "3" -> 3 [] ch = "4" -> 4
    [] ch = "5" -> 5 [] ch = "6" -> 6 [] ch = "7" -> 7 [] ch = "8" -> 8 [] ch = "9" -> 9

DecimalValue(s) ==
  LET v[i \in 0..Len(s)] == IF i = 0 THEN 0 ELSE 10 * v[i - 1] + DigitValue(s[i])
  IN  v[Len(s)]

Atoi(s) ==
  LET signed == s # <<>> /\ Head(s) \in {"+", "-"}
      ds     == IF signed THEN Tail(s) ELSE s
  IN  IF ds = <<>> \/ \E i \in 1..Len(ds) : ds[i] \notin Digits
        THEN [err |-> TRUE, val |-> 0]
      ELSE [err |-> FALSE,
            val |-> IF signed /\ Head(s) = "-" THEN 0 - DecimalValue(ds)
                    ELSE DecimalValue(ds)]

HostInputs == { <<>>, <<" ">>, <<"a", ".", "C", "o", "m">>, <<" ", "a", "\t">> }
PortInputs ==
  { <<>>, <<"0">>, <<"4","4","3">>, <<"8","4","4","3">>, <<"6","5","5","3","5">>,
    <<"6","5","5","3","6">>, <<"-","1">>, <<"+","7">>, <<"x">> }

SSLQueries     == { [host |-> h, port |-> p] : h \in HostInputs, p \in PortInputs }
FewSSLQueries == { [host |-> <<"a", ".", "C", "o", "m">>, port |-> <<>>] }


\* ------------------------------------------------------ parseWhoisResponse
\* a Go string literal as the sequence of its characters
Chars(s) == [i \in 1..Len(s) |-> SubSeq(s, i, i)]

\* the text lit stands in s at position i
MatchAt(s, lit, i) ==
  /\ i >= 1
  /\ i + Len(lit) - 1 <= Len(s)
  /\ \A k \in 1..Len(lit) : s[i + k - 1] = lit[k]

\* strings.HasPrefix, strings.HasSuffix, strings.EqualFold
HasPrefix(s, prefix) == MatchAt(s, prefix, 1)
HasSuffix(s, suffix) == MatchAt(s, suffix, Len(s) - Len(suffix) + 1)
EqualFold(s, t)      == ToLower(s) = ToLower(t)

\* the ten expressions of parseWhoisResponse, all of the shape
\* (?i) head ( .* )? tail \s*(.+) : the alternatives of the head in the order
\* the expression lists them, each with the text of the group it fills
Alt(text, group) == [text |-> Chars(text), group |-> Chars(group)]

patterns ==
  [registrar        |-> [heads  |-> << Alt("registrar", "") >>,
                         gap    |-> FALSE, tail |-> Chars(":"), groups |-> 1],
   creation_date    |-> [heads  |-> << Alt("creation date", "creation date"),
                                       Alt("created", "created"),
                                       Alt("registered", "registered") >>,
                         gap    |-> FALSE, tail |-> Chars(":"), groups |-> 2],
   expiration_date  |-> [heads  |-> << Alt("expir", "expir"), Alt("expires", "expires") >>,
                         gap    |-> TRUE, tail |-> Chars(":"), groups |-> 2],
   updated_date     |-> [heads  |-> << Alt("updated", "updated"),
                                       Alt("last updated", "last updated"),
                                       Alt("modified", "modified") >>,
                         gap    |-> TRUE, tail |-> Chars(":"), groups |-> 2],
   name_server      |-> [heads  |-> << Alt("name server", "") >>,
                         gap    |-> FALSE, tail |-> Chars(":"), groups |-> 1],
   status           |-> [heads  |-> << Alt("domain status", "domain "), Alt("status", "") >>,
                         gap    |-> FALSE, tail |-> Chars(":"), groups |-> 2],
   registrant_org   |-> [heads  |-> << Alt("registrant", "") >>,
                         gap    |-> TRUE, tail |-> Chars("organization:"), groups |-> 1],
   registrant_email |-> [heads  |-> << Alt("registrant", "") >>,
                         gap    |-> TRUE, tail |-> Chars("email:"), groups |-> 1],
   admin_email      |-> [heads  |-> << Alt("admin", "") >>,
                         gap    |-> TRUE, tail |-> Chars("email:"), groups |-> 1],
   tech_email       |-> [heads  |-> << Alt("tech", "") >>,
                         gap    |-> TRUE, tail |-> Chars("email:"), groups |-> 1]]

\* \s*(.+) on the text after the tail: the greedy \s* takes the leading white
\* space and leaves the group at least one character
Capture(rest) ==
  LET solid == { i \in 1..Len(rest) : ~IsSpace(rest[i]) }
      first == IF solid = {} THEN Len(rest)
               ELSE CHOOSE i \in solid : \A j \in solid : i <= j
  IN  SubSeq(rest, first, Len(rest))

\* where the tail of p can stand after a head that ends before position from,
\* with text left for the group: directly at from, or anywhere later when the
\* expression has .* (the greedy .* takes the last such place)
TailPlaces(p, low, from) ==
  { q \in from..Len(low) :
      /\ MatchAt(low, p.tail, q)
      /\ q + Len(p.tail) <= Len(low)
      /\ (p.gap \/ q = from) }

\* regexp.FindStringSubmatch: nil when the expression matches nowhere, else the
\* leftmost match followed by its groups
FindStringSubmatch(p, line) ==
  LET low    == ToLower(line)
      fits(i, a) == /\ MatchAt(low, p.heads[a].text, i)
                    /\ TailPlaces(p, low, i + Len(p.heads[a].text)) # {}
      starts == { i \in 1..Len(line) : \E a \in 1..Len(p.heads) : fits(i, a) }
  IN  IF starts = {} THEN <<>>
      ELSE LET i     == CHOOSE s \in starts : \A t \in starts : s <= t
               a     == CHOOSE b \in 1..Len(p.heads) :
                          fits(i, b) /\ \A e \in 1..(b - 1) : ~fits(i, e)
               head  == p.heads[a]
               qs    == TailPlaces(p, low, i + Len(head.text))
               q     == CHOOSE s \in qs : \A t \in qs : t <= s
               group == Capture(SubSeq(line, q + Len(p.tail), Len(line)))
               whole == SubSeq(line, i, Len(line))
           IN  IF p.groups = 1 THEN << whole, group >>
               ELSE << whole, SubSeq(line, i, i + Len(head.group) - 1), group >>

\* ---------------------------------------------------------------- parseDate
\* a time.Time: the civil date and clock with the offset of its zone in seconds
\* and the nanoseconds within the second
Date(y, mo, d, h, mi, s, off) ==
  [year |-> y, month |-> mo, day |-> d, hour |-> h, min |-> mi, sec |-> s, offset |-> off,
   nsec |-> 0]

\* time.Time{}
ZeroTime == Date(1, 1, 1, 0, 0, 0, 0)

isLeap(y) == y % 4 = 0 /\ (y % 100 # 0 \/ y % 400 = 0)

daysIn(mo, y) ==
  IF mo = 2 THEN (IF isLeap(y) THEN 29 ELSE 28)
  ELSE IF mo \in {4, 6, 9, 11} THEN 30 ELSE 31

\* the instant a time.Time denotes: days since January 1 of year 1 and seconds
\* of that day, in UTC
Instant(t) ==
  LET y1    == t.year - 1
      ydays == 365 * y1 + (y1 \div 4) - (y1 \div 100) + (y1 \div 400)
      mdays[mo \in 1..12] == IF mo = 1 THEN 0 ELSE mdays[mo - 1] + daysIn(mo - 1, t.year)
      secs  == t.hour * 3600 + t.min * 60 + t.sec - t.offset
  IN  [day |-> ydays + mdays[t.month] + (t.day - 1) + (secs \div 86400),
       sec |-> secs % 86400, nsec |-> t.nsec]

\* Time.IsZero: the instant is January 1, year 1, 00:00:00 UTC
IsZero(t) == Instant(t) = Instant(ZeroTime)

isDigit(s, i) == i <= Len(s) /\ s[i] \in Digits

\* getnum: one or two leading digits, two of them required when fixed
getnum(s, fixed) ==
  IF ~isDigit(s, 1) THEN [ok |-> FALSE, n |-> 0, rest |-> s]
  ELSE IF ~isDigit(s, 2)
    THEN [ok |-> ~fixed, n |-> DigitValue(s[1]), rest |-> SubSeq(s, 2, Len(s))]
  ELSE [ok |-> TRUE, n |-> 10 * DigitValue(s[1]) + DigitValue(s[2]),
        rest |-> SubSeq(s, 3, Len(s))]

longMonthNames ==
  << "January", "February", "March", "April", "May", "June", "July", "August",
     "September", "October", "November", "December" >>

shortMonthNames ==
  << "Jan", "Feb", "Mar", "Apr", "May", "Jun", "Jul", "Aug", "Sep", "Oct", "Nov", "Dec" >>

\* lookup: the index of the first name that the value starts with, letter case
\* ignored; 0 when there is none
lookup(tab, val) ==
  LET hits == { i \in 1..Len(tab) : MatchAt(ToLower(val), ToLower(Chars(tab[i])), 1) }
  IN  IF hits = {} THEN 0 ELSE CHOOSE i \in hits : \A j \in hits : i <= j

\* the layouts WHOIS dates are written in, as the chunks the time package cuts
\* them into; a chunk that is no reference value stands for itself
DateLayouts ==
  << << "2006", "-", "01", "-", "02", "T", "15", ":", "04", ":", "05", "Z07:00" >>,
     << "2006", "-", "01", "-", "02", "T", "15", ":", "04", ":", "05", "Z" >>,
     << "2006", "-", "01", "-", "02", " ", "15", ":", "04", ":", "05" >>,
     << "2006", "-", "01", "-", "02" >>,
     << "02", "-", "Jan", "-", "2006" >>,
     << "January", " ", "02", " ", "2006" >>,
     << "2", "-", "Jan", "-", "2006" >>,
     << "2006", "/", "01", "/", "02" >> >>

\* the list without the layout of a day of one digit
formatsWithoutShortDay == SubSeq(DateLayouts, 1, 6) \o << DateLayouts[8] >>

\* formats := []string{...}
formats == DateLayouts

NoTime == [ok |-> FALSE, t |-> ZeroTime]

\* skip for a space of the layout: the value has a space there, and all the
\* spaces it has there are passed over
cutspace(v) ==
  LET other == { i \in 1..Len(v) : v[i] # " " }
  IN  IF other = {} THEN <<>>
      ELSE SubSeq(v, CHOOSE i \in other : \A j \in other : i <= j, Len(v))

\* a fraction of a second in the value where the layout has none: a period or
\* comma and the digits after it, of which nine count (parseNanoseconds)
fraction(v) ==
  IF Len(v) >= 2 /\ v[1] \in {".", ","} /\ isDigit(v, 2)
    THEN LET after == { i \in 2..(Len(v) + 1) : ~isDigit(v, i) }
             stop  == CHOOSE i \in after : \A j \in after : i <= j
             kept  == SubSeq(v, 2, IF stop - 2 > 9 THEN 10 ELSE stop - 1)
             scale[k \in 0..9] == IF k = 0 THEN 1 ELSE 10 * scale[k - 1]
         IN  [nsec |-> DecimalValue(kept) * scale[9 - Len(kept)],
              rest |-> SubSeq(v, stop, Len(v))]
  ELSE [nsec |-> 0, rest |-> v]

\* the Z07:00 chunk: Z, or a sign, two digits, a colon and two digits
parseZone(v) ==
  IF Len(v) >= 1 /\ v[1] = "Z" THEN [ok |-> TRUE, off |-> 0, rest |-> SubSeq(v, 2, Len(v))]
  ELSE IF Len(v) < 6 \/ v[4] # ":" THEN [ok |-> FALSE, off |-> 0, rest |-> v]
  ELSE LET hr == getnum(SubSeq(v, 2, 3), TRUE)
           mm == getnum(SubSeq(v, 5, 6), TRUE)
           o  == (hr.n * 60 + mm.n) * 60
       IN  [ok   |-> hr.ok /\ mm.ok /\ hr.n <= 24 /\ mm.n <= 60 /\ v[1] \in {"+", "-"},
            off  |-> IF v[1] = "-" THEN 0 - o ELSE o,
            rest |-> SubSeq(v, 7, Len(v))]

\* time.Parse from chunk number k of the layout on, with the fields read so far
RECURSIVE parseChunks(_, _, _, _)
parseChunks(layout, k, v, t) ==
  IF k > Len(layout)
    THEN [ok |-> v = <<>> /\ t.day >= 1 /\ t.day <= daysIn(t.month, t.year), t |-> t]
  ELSE
    LET std == layout[k]
        num == getnum(v, std \in {"01", "02", "04", "05"})
        on(ok, rest, u) == IF ok THEN parseChunks(layout, k + 1, rest, u) ELSE NoTime
    IN  CASE std = "2006" ->
               on(Len(v) >= 4 /\ \A i \in 1..4 : isDigit(v, i), SubSeq(v, 5, Len(v)),
                  [t EXCEPT !.year = DecimalValue(SubSeq(v, 1, 4))])
          [] std = "01" ->
               on(num.ok /\ num.n >= 1 /\ num.n <= 12, num.rest, [t EXCEPT !.month = num.n])
          [] std \in {"02", "2"} ->
               on(num.ok, num.rest, [t EXCEPT !.day = num.n])
          [] std = "15" ->
               on(num.ok /\ num.n < 24, num.rest, [t EXCEPT !.hour = num.n])
          [] std = "04" ->
               on(num.ok /\ num.n < 60, num.rest, [t EXCEPT !.min = num.n])
          [] std = "05" ->
               on(num.ok /\ num.n < 60, fraction(num.rest).rest,
                  [t EXCEPT !.sec = num.n, !.nsec = fraction(num.rest).nsec])
          [] std = "Jan" ->
               LET m == lookup(shortMonthNames, v)
               IN  on(m # 0, SubSeq(v, 4, Len(v)), [t EXCEPT !.month = m])
          [] std = "January" ->
               LET m == lookup(longMonthNames, v)
               IN  on(m # 0, SubSeq(v, (IF m = 0 THEN 0 ELSE Len(longMonthNames[m])) + 1, Len(v)),
                      [t EXCEPT !.month = m])
          [] std = "Z07:00" ->
               LET z == parseZone(v)
               IN  on(z.ok, z.rest, [t EXCEPT !.offset = z.off])
          [] std = " " ->
               on(MatchAt(v, << " " >>, 1), cutspace(v), t)
          [] OTHER ->
               on(MatchAt(v, Chars(std), 1), SubSeq(v, Len(std) + 1, Len(v)), t)

\* time.Parse(format, dateStr)
Parse(layout, value) == parseChunks(layout, 1, value, Date(0, 1, 1, 0, 0, 0, 0))

\* parseDate: the first layout that parses, else time.Time{}
parseDate(dateStr) ==
  LET s    == TrimSpace(dateStr)
      good == { f \in 1..Len(formats) : Parse(formats[f], s).ok }
  IN  IF good = {} THEN ZeroTime
      ELSE Parse(formats[CHOOSE f \in good : \A g \in good : f <= g], s).t

\* --------------------------------------------------------------- Time.Format
\* the decimal digits of a number that is not negative
DigitChar(n) == CHOOSE ch \in Digits : DigitValue(ch) = n

RECURSIVE Itoa(_)
Itoa(n) == IF n < 10 THEN << DigitChar(n) >> ELSE Append(Itoa(n \div 10), DigitChar(n % 10))

\* appendInt(b, n, width): the digits with zeros before them up to the width
RECURSIVE Pad(_, _)
Pad(s, width) == IF Len(s) >= width THEN s ELSE Pad(<< "0" >> \o s, width)

\* what Time.Format writes for one chunk of a layout
FormatChunk(std, t) ==
  CASE std = "2006"    -> Pad(Itoa(t.year), 4)
    [] std = "01"      -> Pad(Itoa(t.month), 2)
    [] std = "02"      -> Pad(Itoa(t.day), 2)
    [] std = "2"       -> Itoa(t.day)
    [] std = "15"      -> Pad(Itoa(t.hour), 2)
    [] std = "04"      -> Pad(Itoa(t.min), 2)
    [] std = "05"      -> Pad(Itoa(t.sec), 2)
    [] std = "Jan"     -> Chars(shortMonthNames[t.month])
    [] std = "January" -> Chars(longMonthNames[t.month])
    [] std = "Z07:00"  ->
         IF t.offset = 0 THEN << "Z" >>
         ELSE LET zone == (IF t.offset < 0 THEN 0 - t.offset ELSE t.offset) \div 60
              IN  << IF t.offset < 0 THEN "-" ELSE "+" >> \o Pad(Itoa(zone \div 60), 2)
                    \o << ":" >> \o Pad(Itoa(zone % 60), 2)
    [] OTHER -> Chars(std)

\* Time.Format(layout)
Format(layout, t) ==
  LET out[k \in 0..Len(layout)] ==
        IF k = 0 THEN <<>> ELSE out[k - 1] \o FormatChunk(layout[k], t)
  IN  out[Len(layout)]

\* ---------------------------------------------------------- removeDuplicates
\* the last occurrence of each value kept instead of the first
removeDuplicatesKeepLast(slice) ==
  LET keep == { i \in 1..Len(slice) : \A j \in (i + 1)..Len(slice) : slice[j] # slice[i] }
      nth(k) == CHOOSE i \in keep : Cardinality({ j \in keep : j < i }) = k - 1
  IN  [k \in 1..Cardinality(keep) |-> slice[nth(k)]]

\* removeDuplicates: the items in order, each appended unless seen before
removeDuplicates(slice) ==
  LET r[i \in 0..Len(slice)] ==
        IF i = 0 THEN [seen |-> {}, result |-> <<>>]
        ELSE IF slice[i] \in r[i - 1].seen THEN r[i - 1]
        ELSE [seen |-> r[i - 1].seen \cup {slice[i]}, result |-> Append(r[i - 1].result, slice[i])]
  IN  r[Len(slice)].result

\* ------------------------------------------------- inputs of the parser
\* lines a WHOIS server may send
WhoisLines ==
  { Chars("Registrar: R1"),
    Chars("registrar:r2"),
    Chars("% Registrar: X"),
    <<" ">> \o Chars("# Name Server: n0"),
    <<"\r">>,
    Chars("Name Server: NS1.E.C"),
    Chars("name server: ns1.e.c") \o <<"\r">>,
    Chars("Domain Status: ok"),
    Chars("Status: ok"),
    Chars("status: OK"),
    Chars("Creation Date: 2020-01-02T03:04:05Z"),
    Chars("Created: soon"),
    Chars("Expires: 2021-02-03"),
    Chars("Registry Expiry Date: 2021-01-02T03:04:05Z"),
    Chars("Updated Date: 04-Mar-2020"),
    Chars("Registrant Organization: O1"),
    Chars("registrant organization: o2"),
    Chars("Registrant Email: a@b"),
    Chars("Admin Email: c@d"),
    Chars("Tech Email: e@f"),
    Chars("Registrant Admin Tech Email: g@h") }

\* the raw text of a response: lines joined by "\n", as queryWhoisServer
\* collects them
WhoisTexts == { RawDataOf(ls) : ls \in UNION { [1..n -> WhoisLines] : n \in 0..MaxLines } }

\* ------------------------------------------------------------ certificates
\* an x509.Certificate as far as GetSSLInfo reads it; times are in hours
Certificate(cn, issuer, names, nb, na, crl, ocsp, ca) ==
  [Subject |-> [CommonName |-> cn], Issuer |-> [CommonName |-> issuer], DNSNames |-> names,
   NotBefore |-> nb, NotAfter |-> na, CRLDistributionPoints |-> crl, OCSPServer |-> ocsp,
   IsCA |-> ca]

\* pkix.Name.String() of a name that has a common name only
NameString(name) == Chars("CN=") \o name.CommonName

\* strings.HasSuffix(domain, "."+wildcard) || strings.EqualFold(domain, wildcard)
DomainUnderWildcard(d, wildcard) ==
  HasSuffix(d, <<".">> \o wildcard) \/ EqualFold(d, wildcard)

\* matchesDomain
matchesDomain(cert, d) ==
  \/ EqualFold(cert.Subject.CommonName, d)
  \/ \E i \in 1..Len(cert.DNSNames) :
       LET name == cert.DNSNames[i]
       IN  \/ EqualFold(name, d)
           \/ /\ HasPrefix(name, Chars("*."))
              /\ DomainUnderWildcard(d, SubSeq(name, 3, Len(name)))

\* the checks given up at the first finding
validateCertificateFirstOnly(cert, d, nowAfter, nowBefore) ==
  IF nowAfter > cert.NotAfter THEN << "certificate has expired" >>
  ELSE IF nowBefore < cert.NotBefore THEN << "certificate is not yet valid" >>
  ELSE IF ~matchesDomain(cert, d) THEN << "certificate does not match domain" >>
  ELSE IF Len(cert.CRLDistributionPoints) = 0 /\ Len(cert.OCSPServer) = 0
    THEN << "no revocation checking mechanism available" >>
  ELSE <<>>

\* validateCertificate, with the two readings of time.Now()
validateCertificate(cert, d, nowAfter, nowBefore) ==
  (IF nowAfter > cert.NotAfter THEN << "certificate has expired" >> ELSE <<>>) \o
  (IF nowBefore < cert.NotBefore THEN << "certificate is not yet valid" >> ELSE <<>>) \o
  (IF ~matchesDomain(cert, d) THEN << "certificate does not match domain" >> ELSE <<>>) \o
  (IF Len(cert.CRLDistributionPoints) = 0 /\ Len(cert.OCSPServer) = 0
     THEN << "no revocation checking mechanism available" >> ELSE <<>>)

HoursPerDay == 24

\* int(x) of a float64: the fraction is dropped, rounding toward zero
IntOfQuotient(a, b) == IF a >= 0 THEN a \div b ELSE 0 - ((0 - a) \div b)

\* int(time.Until(cert.NotAfter).Hours() / 24)
DaysUntil(notAfter, now) == IntOfQuotient(notAfter - now, HoursPerDay)

\* a self-signed leaf taken for no certificate
NoCertificatesOrSelfSigned(certs) ==
  Len(certs) = 0 \/ certs[1].Issuer = certs[1].Subject

\* len(state.PeerCertificates) == 0
NoCertificates(certs) == Len(certs) = 0

\* one CertificateInfo per peer certificate
CertificateInfoOf(cert) ==
  [Subject |-> NameString(cert.Subject), Issuer |-> NameString(cert.Issuer),
   NotBefore |-> cert.NotBefore, NotAfter |-> cert.NotAfter, IsCA |-> cert.IsCA]

\* the validity flag without the test of notBefore
IsValidIgnoringNotBefore(daysUntilExpiry, now, notBefore) == daysUntilExpiry > 0

\* the validity flag without the test of the days left
IsValidIgnoringExpiry(daysUntilExpiry, now, notBefore) == now > notBefore

\* daysUntilExpiry > 0 && time.Now().After(cert.NotBefore)
IsValidAt(daysUntilExpiry, now, notBefore) == daysUntilExpiry > 0 /\ now > notBefore

\* the chain without its first certificate
ChainOfIssuers(certs) == [i \in 1..(Len(certs) - 1) |-> CertificateInfoOf(certs[i + 1])]

\* for _, peerCert := range state.PeerCertificates { ... append(..., certInfo) }
ChainOf(certs) == [i \in 1..Len(certs) |-> CertificateInfoOf(certs[i])]

\* GetSSLInfo from the connection state on: the record for the certificates
\* presented, clk being the readings of the clock in the order the code takes
\* them (QueryTime, time.Until, the validity flag, the two of validateCertificate)
SSLInfoOf(d, certs, clk) ==
  LET cert == certs[1]
      daysUntilExpiry == DaysUntil(cert.NotAfter, clk[2])
  IN  [Domain           |-> d,
       Issuer           |-> NameString(cert.Issuer),
       Subject          |-> NameString(cert.Subject),
       NotBefore        |-> cert.NotBefore,
       NotAfter         |-> cert.NotAfter,
       SubjectAltNames  |-> cert.DNSNames,
       QueryTime        |-> clk[1],
       DaysUntilExpiry  |-> daysUntilExpiry,
       IsValid          |-> IsValidAt(daysUntilExpiry, clk[3], cert.NotBefore),
       IsSelfSigned     |-> NameString(cert.Issuer) = NameString(cert.Subject),
       IsWildcard       |-> \E i \in 1..Len(cert.DNSNames) :
                              HasPrefix(cert.DNSNames[i], Chars("*.")),
       ValidationErrors |-> validateCertificate(cert, d, clk[4], clk[5]),
       CertificateChain |-> ChainOf(certs)]

\* ------------------------------------------------- inputs of the TLS probe
\* validity windows around the time of the probe, which is hour 0
ValidityWindows ==
  { w \in [NotBefore : {0 - 100, 0, 12}, NotAfter : {0 - 30, 0 - 12, 0, 36, 48}] :
      w.NotBefore < w.NotAfter }

RevocationSources == { [crl |-> <<>>, ocsp |-> <<>>], [crl |-> <<"c">>, ocsp |-> <<>>],
                       [crl |-> <<>>, ocsp |-> <<"o">>] }

\* leaf certificates a server may present, signed by itself or by "ca"
Leaves(cns, sans, windows, revs) ==
  { Certificate(cn, IF self THEN cn ELSE Chars("ca"), names, w.NotBefore, w.NotAfter,
                r.crl, r.ocsp, FALSE) :
      cn \in cns, self \in BOOLEAN, names \in sans, w \in windows, r \in revs }

Authority == Certificate(Chars("ca"), Chars("ca"), <<>>, 0 - 100, 48, <<>>, <<>>, TRUE)

LeafCertificates ==
  Leaves({ Chars("a.com"), Chars("o.c") }, { <<>>, << Chars("*.com") >> },
         ValidityWindows, { r \in RevocationSources : r.ocsp = <<>> })

FewLeafCertificates ==
  Leaves({ Chars("a.com") }, { <<>> }, { [NotBefore |-> 0 - 100, NotAfter |-> 48] },
         { [crl |-> <<>>, ocsp |-> <<>>] })

\* state.PeerCertificates: the certificates the peer presented, leaf first
ChainsOf(leaves) ==
  { [i \in 1..n |-> IF i = 1 THEN l ELSE Authority] : n \in 1..MaxCerts, l \in leaves }
    \cup { <<>> }

PeerCertificateLists    == ChainsOf(LeafCertificates)
FewPeerCertificateLists == ChainsOf(FewLeafCertificates)

\* successive readings of time.Now() during one call, in hours
ClockReadings ==
  { clk \in [1..5 -> {0, 1}] : \A i \in 1..4 : clk[i] <= clk[i + 1] }
FewClockReadings == { [i \in 1..5 |-> 0] }

\* -------------------------------------------------------------- URL cleaner
\* the bytes of the texts below in ASCII order
Ascii == Chars(" %&+0123456789=?ABCDEFGHIJKLMNOPQRSTUVWXYZ_abcdefghijklmnopqrstuvwxyz")

Code(ch) == CHOOSE i \in 1..Len(Ascii) : Ascii[i] = ch

\* s < t for strings: byte by byte, a proper prefix first
Less(s, t) ==
  \E i \in 1..(Len(t)) :
    /\ \A j \in 1..(i - 1) : j <= Len(s) /\ s[j] = t[j]
    /\ (i > Len(s) \/ Code(s[i]) < Code(t[i]))

\* the orders in which the elements of a set can be listed
Orders(S) ==
  { o \in [1..Cardinality(S) -> S] : \A i, j \in 1..Cardinality(S) : i # j => o[i] # o[j] }

\* sort.Strings of the elements of a set
SortStrings(S) == CHOOSE o \in Orders(S) : \A i \in 1..(Len(o) - 1) : Less(o[i], o[i + 1])

\* strings.Cut(s, sep) for a one-character separator
Cut(s, sep) ==
  LET at == { i \in 1..Len(s) : s[i] = sep }
  IN  IF at = {} THEN [before |-> s, after |-> <<>>, found |-> FALSE]
      ELSE LET i == CHOOSE k \in at : \A m \in at : k <= m
           IN  [before |-> SubSeq(s, 1, i - 1), after |-> SubSeq(s, i + 1, Len(s)),
                found |-> TRUE]

HexDigits == Digits \cup {"A","B","C","D","E","F","a","b","c","d","e","f"}

\* the escapes of the bytes that need one in a query component, and of two
\* that do not
PercentCodes ==
  (Chars("20") :> " ") @@ (Chars("25") :> "%") @@ (Chars("26") :> "&") @@
  (Chars("2B") :> "+") @@ (Chars("3D") :> "=") @@ (Chars("3F") :> "?") @@
  (Chars("5F") :> "_") @@ (Chars("61") :> "a")

\* url.QueryUnescape: %XX is the byte XX, + is a space; a % that two hex
\* digits do not follow is an error
RECURSIVE QueryUnescape(_)
QueryUnescape(s) ==
  IF s = <<>> THEN [ok |-> TRUE, s |-> <<>>]
  ELSE IF s[1] = "%"
  THEN IF Len(s) >= 3 /\ s[2] \in HexDigits /\ s[3] \in HexDigits
       THEN LET rest == QueryUnescape(SubSeq(s, 4, Len(s)))
            IN  [ok |-> rest.ok,
                 s  |-> << PercentCodes[ToUpper(<< s[2], s[3] >>)] >> \o rest.s]
       ELSE [ok |-> FALSE, s |-> <<>>]
  ELSE LET rest == QueryUnescape(Tail(s))
       IN  [ok |-> rest.ok, s |-> << IF s[1] = "+" THEN " " ELSE s[1] >> \o rest.s]

\* shouldEscape for a query component
shouldEscape(ch) ==
  ch \notin DOMAIN LowerOf \cup DOMAIN UpperOf \cup Digits \cup {"-", "_", ".", "~"}

\* url.QueryEscape: letters, digits and - _ . ~ stay, a space becomes +, any
\* other byte becomes %XX
RECURSIVE QueryEscape(_)
QueryEscape(s) ==
  IF s = <<>> THEN <<>>
  ELSE (IF s[1] = " " THEN << "+" >>
        ELSE IF shouldEscape(s[1])
        THEN << "%" >> \o (CHOOSE code \in DOMAIN PercentCodes : PercentCodes[code] = s[1])
        ELSE << s[1] >>) \o QueryEscape(Tail(s))

\* url.Values: the values of each key, in the order they were added
NoValues == [k \in {} |-> <<>>]
Add(values, key, value) ==
  IF key \in DOMAIN values THEN [values EXCEPT ![key] = Append(@, value)]
  ELSE [k \in DOMAIN values \cup {key} |-> IF k = key THEN << value >> ELSE values[k]]

\* url.ParseQuery with its error dropped, as URL.Query calls it: a pair whose
\* key or value does not unescape is skipped
RECURSIVE ParseQuery(_, _)
ParseQuery(m, query) ==
  IF query = <<>> THEN m
  ELSE LET seg  == Cut(query, "&")
           pair == Cut(seg.before, "=")
           key  == QueryUnescape(pair.before)
           val  == QueryUnescape(pair.after)
       IN  IF seg.before = <<>> \/ ~key.ok \/ ~val.ok THEN ParseQuery(m, seg.after)
           ELSE ParseQuery(Add(m, key.s, val.s), seg.after)

\* Values.Encode: key=value pairs joined by &, the keys sorted
RECURSIVE EncodePairs(_, _, _)
EncodePairs(values, keys, n) ==
  IF keys = <<>> THEN <<>>
  ELSE IF n > Len(values[keys[1]]) THEN EncodePairs(values, Tail(keys), 1)
  ELSE LET rest == IF n < Len(values[keys[1]]) THEN EncodePairs(values, keys, n + 1)
                   ELSE EncodePairs(values, Tail(keys), 1)
       IN  QueryEscape(keys[1]) \o << "=" >> \o QueryEscape(values[keys[1]][n]) \o
           (IF rest = <<>> THEN <<>> ELSE << "&" >> \o rest)

Encode(values) == EncodePairs(values, SortStrings(DOMAIN values), 1)

\* url.Parse of a URL without fragment: the text before the first ? and the
\* query after it; ForceQuery when the ? is there and the query is empty
ParseURL(rawURL) ==
  LET cut == Cut(rawURL, "?")
  IN  [Prefix |-> cut.before, RawQuery |-> cut.after,
       ForceQuery |-> cut.found /\ cut.after = <<>>]

\* URL.String
URLString(u) ==
  u.Prefix \o (IF u.ForceQuery \/ u.RawQuery # <<>> THEN << "?" >> \o u.RawQuery ELSE <<>>)

\* URL.Query
URLQuery(u) == ParseQuery(NoValues, u.RawQuery)

\* loadTrackingDefinitions: the rules of tracking_params.json with their keys
\* in lower case, the exact ones by key and the prefix ones in file order
RECURSIVE LoadInto(_, _)
LoadInto(defs, params) ==
  IF params = <<>> THEN defs
  ELSE LET p == [params[1] EXCEPT !.MatchType = IF @ = "" THEN "exact" ELSE @,
                                  !.Key = ToLower(@)]
       IN  LoadInto(IF p.MatchType = "prefix"
                    THEN [defs EXCEPT !.prefixMatchParams = Append(@, p)]
                    ELSE [defs EXCEPT !.exactMatchParams =
                            [k \in DOMAIN @ \cup {p.Key} |-> IF k = p.Key THEN p ELSE @[k]]],
                    Tail(params))

loadTrackingDefinitions(params) ==
  LoadInto([exactMatchParams |-> [k \in {} |-> <<>>], prefixMatchParams |-> <<>>], params)

NoMatch == [foundMatch |-> FALSE]

\* the rule CleanURL finds for a key: the exact rule of its lower-case form,
\* else the first prefix rule that form starts with
MatchedDetail(defs, key) ==
  LET lowercaseKey == ToLower(key)
  IN  IF lowercaseKey \in DOMAIN defs.exactMatchParams
      THEN [foundMatch |-> TRUE, detail |-> defs.exactMatchParams[lowercaseKey]]
      ELSE LET hits == { i \in 1..Len(defs.prefixMatchParams) :
                           HasPrefix(lowercaseKey, defs.prefixMatchParams[i].Key) }
           IN  IF hits = {} THEN NoMatch
               ELSE [foundMatch |-> TRUE,
                     detail |-> defs.prefixMatchParams[CHOOSE i \in hits : \A j \in hits : i <= j]]

\* the entries CleanURL appends for the removed keys, visited in the order
\* keys, one entry per value
RECURSIVE RemovedParamsOf(_, _, _, _)
RemovedParamsOf(defs, query, keys, n) ==
  IF keys = <<>> THEN <<>>
  ELSE IF n > Len(query[keys[1]]) THEN RemovedParamsOf(defs, query, Tail(keys), 1)
  ELSE LET d == MatchedDetail(defs, keys[1]).detail
       IN  << [Parameter |-> keys[1], Value |-> query[keys[1]][n], Company |-> d.Company,
               Type |-> d.Type, Description |-> d.Description, MatchedRule |-> d.Key] >>
           \o RemovedParamsOf(defs, query, keys, n + 1)

\* the keys CleanURL removes from a query
TrackingKeys(defs, query) == { k \in DOMAIN query : MatchedDetail(defs, k).foundMatch }

\* CleanURL(rawURL) with the rules loaded from params, the range over the
\* map visiting the removed keys in the order removedOrder
CleanURL(rawURL, params, removedOrder) ==
  LET defs      == loadTrackingDefinitions(params)
      parsedURL == ParseURL(rawURL)
      query     == URLQuery(parsedURL)
  IN  IF DOMAIN query = {}
      THEN [CleanedURL |-> URLString(parsedURL), RemovedParams |-> <<>>]
      ELSE LET keptKeys == DOMAIN query \ TrackingKeys(defs, query)
               finalQueryValues == [k \in keptKeys |-> query[k]]
           IN  [CleanedURL |-> URLString([parsedURL EXCEPT !.RawQuery = Encode(finalQueryValues)]),
                RemovedParams |-> RemovedParamsOf(defs, query, removedOrder, 1)]

\* the orders in which the range over the map can visit the removed keys
RemovedOrders(rawURL, params) ==
  Orders(TrackingKeys(loadTrackingDefinitions(params), URLQuery(ParseURL(rawURL))))

\* rules as tracking_params.json may list them
Rule(key, matchType, company) ==
  [Key |-> Chars(key), MatchType |-> matchType, Company |-> company, Type |-> "tracking",
   Description |-> "d"]

TrackingParams ==
  { <<>>,
    << Rule("fbclid", "exact", "Meta"), Rule("utm_", "prefix", "Google") >>,
    << Rule("FBCLID", "", "Meta"), Rule("ut", "prefix", "Any"), Rule("UTM_", "prefix", "Google") >>,
    << Rule("b", "prefix", "B"), Rule("b", "exact", "Exact"), Rule("b", "exact", "Last") >> }

\* URLs handed to CleanURL
RawQueries ==
  { "a=1", "utm_x=1&a=2", "UTM_x=1", "fbclid=9&a=1&a=2", "b=1&fbclid=2&fbclid=3", "b&a=1",
    "a=%zz&b=1", "a=%zz", "%zz=1&c=2", "utm%5Fx=1", "%61=x+y", "a=%26%3D", "&&a=1&", "=v",
    "ut=1&u=2", "fbclidx=1&fbcli=2", "b=2&a=1&B=3", "Fbclid=1&fbclid=2", "utm_x=%zz&a=1",
    "a=1=2&bb=%2b", "&", "c=2&a=%z" }

RawURLs ==
  { Chars("http://e.c/p"), Chars("http://e.c/p?") } \cup
  { Chars("http://e.c/p?") \o Chars(q) : q \in RawQueries }

\* ------------------------------------------------- calls of the functions
\* texts handed to parseDate
DateTexts ==
  { Chars("not a date"), <<>>, Chars(" 2020-01-02") \o << "\r" >>, Chars("0001-01-01"),
    Chars("0001-01-01T01:00:00+01:00"), Chars("1970-01-01"), Chars("2020-02-30"),
    Chars("2020-01-02T03:04:05.25Z"), Chars("2020-01-02  03:04:05"), Chars("5-jan-2020"),
    Chars("05-Jan-2020"), Chars("may 5 2020"), Chars("2020-1-02"), Chars("2020/01/02x"),
    Chars("2020-01-02T03:04:05") }

\* times a text may be made of with Time.Format
Timestamps ==
  { Date(2020, 3, 4, 5, 6, 7, 0), Date(2020, 3, 4, 0, 0, 0, 0), Date(2021, 12, 25, 0, 0, 0, 0),
    Date(2020, 5, 15, 23, 59, 59, 3600), Date(2020, 3, 4, 0, 0, 0, 0 - 19800),
    Date(987, 6, 5, 0, 0, 0, 0), Date(1, 1, 1, 0, 0, 0, 0), Date(10000, 1, 1, 0, 0, 0, 0),
    [Date(2020, 3, 4, 5, 6, 7, 0) EXCEPT !.nsec = 500000000] }

\* slices handed to removeDuplicates
Slices == UNION { [1..n -> {"a", "b", "A"}] : n \in 0..MaxItems }

\* names in certificates and the hosts probed against them
CommonNames == { Chars("e.c"), Chars("E.C"), Chars("o.c") }
AltNames ==
  { <<>>, << Chars("s.e.c") >>, << Chars("*.e.c") >>, << Chars("*.E.c") >>,
    << Chars("*.o.c"), Chars("*.e.c") >>, << Chars("o.c"), Chars("S.E.C") >>,
    << Chars("*e.c") >> }
Hosts == { Chars("e.c"), Chars("s.e.c"), Chars("t.s.e.c"), Chars("o.c"), Chars("xe.c") }

FunctionCalls ==
  { [fn |-> "removeDuplicates", slice |-> s] : s \in Slices } \cup
  { [fn |-> "CleanURL", rawURL |-> u, params |-> p] : u \in RawURLs, p \in TrackingParams } \cup
  { [fn |-> "parseDate", dateStr |-> d, layout |-> 0, time |-> ZeroTime] : d \in DateTexts } \cup
  { [fn |-> "parseDate", dateStr |-> Format(DateLayouts[f], t), layout |-> f, time |-> t] :
      f \in 1..Len(DateLayouts), t \in Timestamps } \cup
  { [fn |-> "matchesDomain", cert |-> crt, domain |-> h] :
      crt \in Leaves(CommonNames, AltNames, { [NotBefore |-> 0 - 100, NotAfter |-> 48] },
                     { [crl |-> <<>>, ocsp |-> <<>>] }),
      h \in Hosts } \cup
  { [fn |-> "validateCertificate", cert |-> crt, domain |-> h, nowAfter |-> t[1],
     nowBefore |-> t[2]] :
      crt \in Leaves({ Chars("e.c") }, { <<>>, << Chars("*.o.c") >> }, ValidityWindows,
                     RevocationSources \cup { [crl |-> <<"c">>, ocsp |-> <<"o">>] }),
      h \in { Chars("e.c"), Chars("s.o.c") },
      t \in { u \in {0, 1} \X {0, 1} : u[1] <= u[2] } }

\* --------------------------------------------------------------- DNS lookup
\* the initial value of var defaultDNSRecordTypes
DefaultDNSRecordTypes ==
  << Chars("A"), Chars("AAAA"), Chars("MX"), Chars("CNAME"), Chars("TXT"), Chars("NS") >>

\* the record types LookupDNSRecords has a case for
SupportedRecordTypes ==
  { Chars("A"), Chars("AAAA"), Chars("MX"), Chars("TXT"), Chars("CNAME"), Chars("NS") }

\* the value the loop of DNSLookupHandler stores for an entry rt
NormalizedLower(recordType) == ToLower(TrimSpace(recordType))
Normalized(recordType) == ToUpper(TrimSpace(recordType))

\* a string header (data pointer, length) read while another goroutine writes
\* it: the two words may come from different strings, so the text of one is
\* read with the length of the other; bytes past its end are unknown
Torn(data, length) ==
  [i \in 1..Len(length) |-> IF i <= Len(data) THEN data[i] ELSE "?"]

\* what the net package answers for a record type: an error or not, and
\* whether any record of that type came back
Resolvers ==
  { [t \in SupportedRecordTypes |-> [err |-> FALSE, found |-> TRUE]],
    [t \in SupportedRecordTypes |-> [err |-> TRUE, found |-> FALSE]],
    [t \in SupportedRecordTypes |->
       IF t = Chars("A") THEN [err |-> FALSE, found |-> TRUE]
       ELSE IF t = Chars("MX") THEN [err |-> TRUE, found |-> FALSE]
       ELSE [err |-> FALSE, found |-> FALSE]] }

\* LookupDNSRecords: the keys of the two maps it returns.  results is keyed
\* by the normalized type, errors by the type as passed
LookupDNSRecords(recordTypes, net) ==
  LET passed == { recordTypes[i] : i \in 1..Len(recordTypes) }
      known  == { t \in passed : Normalized(t) \in SupportedRecordTypes }
  IN  [results |-> { Normalized(t) : t \in { u \in known : net[Normalized(u)].found } },
       errors  |-> [t \in (passed \ known) \cup { u \in known : net[Normalized(u)].err } |->
                      IF t \in known THEN "lookup failed" ELSE "Unsupported record type"]]

\* c.Request.URL.Query()["record_types"]: whether the key is there, and its
\* values (at least one when it is)
NoRecordTypes == [present |-> FALSE, values |-> <<>>]
RecordTypes(vs) == [present |-> TRUE, values |-> vs]

\* c.QueryArray("record_types")
QueryArray(param) == IF param.present THEN param.values ELSE <<>>

DNSRequests ==
  { [domain |-> d, record_types |-> r] :
      d \in { <<>>, Chars("e.c") },
      r \in { NoRecordTypes,
              RecordTypes(<< Chars(" a "), Chars("mx") >>),
              RecordTypes(<< Chars("ptr"), Chars("NS") >>),
              RecordTypes(<< <<>> >>) } }

\* ------------------------------------------------------------------- state
VARIABLES
  defaultDNSRecordTypes, \* the package-level slice of DNSLookupHandler
  dnsPc,         \* per DNS request: where its goroutine is
  dnsQuery,      \* per DNS request: the query parameters
  typesToLookup, \* DNSLookupHandler: the slice: the shared one, or its own elements
  rangeIndex,    \* DNSLookupHandler: i of the range loop
  rt,            \* DNSLookupHandler: rt of the range loop
  dnsStatus,     \* HTTP status written by DNSLookupHandler
  dnsBody,       \* HTTP body written by DNSLookupHandler
  traffic,       \* which requests the callers send: "any" or "few"
  WhoisServers,  \* the package-level table
  kind,          \* per request: "whois" or "ssl"
  query,         \* per request: the query parameters
  pc,            \* per request: where its goroutine is
  domain,        \* GetWhoisInfo / GetSSLInfo: the normalized domain
  servers,       \* GetWhoisInfo: the candidate list
  address,       \* GetSSLInfo: host:port to dial
  idx,           \* GetWhoisInfo: position of the range loop
  lastErr,       \* GetWhoisInfo: lastErr
  deadline,      \* queryWhoisServer: the deadline set on the connection
  elapsed,       \* time since the handler created its context
  conn,          \* connections the request holds open
  attempted,     \* servers dialled, in order
  outcomes,      \* what each finished attempt got from its server
  wire,          \* what the request wrote to its connections
  steps,         \* GetWhoisInfo: the calls on connections and of the parser, in order
  clock,         \* GetSSLInfo: the readings of time.Now(), in order
  result,        \* what GetWhoisInfo / GetSSLInfo returned
  status,        \* HTTP status written by the handler
  body,          \* HTTP body written by the handler
  parsing,       \* parseWhoisResponse: where the call is
  whoisText,     \* parseWhoisResponse: rawData
  whoisLines,    \* parseWhoisResponse: lines
  lineNo,        \* parseWhoisResponse: position of the loop over the lines
  info,          \* parseWhoisResponse: the record being filled
  collected,     \* parseWhoisResponse: the lists as the loop left them
  call,          \* a function called on its own: its name and arguments
  ret            \* what that call returned

\* the state of the lookups and handlers, and the state of a parser call
lookupVars == << traffic, WhoisServers, kind, query, pc, domain, servers, address, idx, lastErr,
                 deadline, elapsed, conn, attempted, outcomes, wire, steps, clock, result,
                 status, body >>
parserVars == << parsing, whoisText, whoisLines, lineNo, info, collected >>

callVars   == << call, ret >>

\* the state of the DNS lookups
dnsVars    == << defaultDNSRecordTypes, dnsPc, dnsQuery, typesToLookup, rangeIndex, rt,
                 dnsStatus, dnsBody >>

vars == << lookupVars, parserVars, callVars, dnsVars >>

NoResult == [rec |-> Nil, err |-> Nil]

\* what the TLS peers of this run may present, and how the clock may advance
Presented == IF traffic = "any" THEN PeerCertificateLists ELSE FewPeerCertificateLists
Readings  == IF traffic = "any" THEN ClockReadings ELSE FewClockReadings

\* the peer answered and closed: what it sent
Answered(data) == [kind |-> "answer", data |-> data]
Failed(o) == o.kind # "answer"
NoBody   == [none |-> TRUE]
NoAddress == [host |-> <<>>, port |-> 0]

\* the handler's context: done once its timeout has passed
HandlerTimeout(k) == IF k = "whois" THEN WhoisHandlerTimeout ELSE SSLHandlerTimeout
ctxDone(c) == pc[c] \notin {"off", "idle"} /\ elapsed[c] >= HandlerTimeout(kind[c])

InFlight == {"dial", "write", "read", "tlsdial"}

\* a request as the router hands it to its handler
Arrive(c, k, q) ==
  /\ kind'      = [kind EXCEPT ![c] = k]
  /\ query'     = [query EXCEPT ![c] = q]
  /\ pc'        = [pc EXCEPT ![c] = "request"]
  /\ domain'    = [domain EXCEPT ![c] = <<>>]
  /\ servers'   = [servers EXCEPT ![c] = <<>>]
  /\ address'   = [address EXCEPT ![c] = NoAddress]
  /\ idx'       = [idx EXCEPT ![c] = 0]
  /\ lastErr'   = [lastErr EXCEPT ![c] = Nil]
  /\ deadline'  = [deadline EXCEPT ![c] = 0]
  /\ elapsed'   = [elapsed EXCEPT ![c] = 0]
  /\ conn'      = [conn EXCEPT ![c] = <<>>]
  /\ attempted' = [attempted EXCEPT ![c] = <<>>]
  /\ outcomes'  = [outcomes EXCEPT ![c] = <<>>]
  /\ wire'      = [wire EXCEPT ![c] = <<>>]
  /\ steps'     = [steps EXCEPT ![c] = <<>>]
  /\ clock'     = [clock EXCEPT ![c] = <<>>]
  /\ result'    = [result EXCEPT ![c] = NoResult]
  /\ status'    = [status EXCEPT ![c] = 0]
  /\ body'      = [body EXCEPT ![c] = NoBody]

\* --------------------------------------------------------------- handlers
\* a failed lookup answered with a server error status
WhoisLookupResponseAs500(dq, res) ==
  IF res.err # Nil
    THEN [status |-> 500,
          body   |-> [Domain |-> dq, WhoisServer |-> "", Error |-> ErrorString(res.err)]]
  ELSE IF res.rec = Nil
    THEN [status |-> 500, body |-> NoBody]
  ELSE [status |-> StatusOK,
        body   |-> [Domain |-> res.rec.Domain, WhoisServer |-> res.rec.WhoisServer,
                    Error |-> <<>>]]

\* WhoisLookupHandler after domain.GetWhoisInfo returned (lines 149-172)
WhoisLookupResponse(dq, res) ==
  IF res.err # Nil
    THEN [status |-> StatusOK,
          body   |-> [Domain |-> dq, WhoisServer |-> "", Error |-> ErrorString(res.err)]]
  ELSE IF res.rec = Nil
    THEN [status |-> 500, body |-> NoBody]   \* nil dereference, gin's Recovery
  ELSE [status |-> StatusOK,
        body   |-> [Domain |-> res.rec.Domain, WhoisServer |-> res.rec.WhoisServer,
                    Error |-> <<>>]]

\* SSLCheckHandler after domain.GetSSLInfo returned (lines 214-257)
SSLCheckResponse(hq, res) ==
  IF res.err # Nil
    THEN [status |-> StatusOK,
          body   |-> [Domain |-> hq, CertificateChain |-> <<>>,
                      Error |-> ErrorString(res.err)]]
  ELSE IF res.rec = Nil
    THEN [status |-> 500, body |-> NoBody]
  ELSE [status |-> StatusOK,
        body   |-> [Domain |-> res.rec.Domain,
                    CertificateChain |-> res.rec.CertificateChain, Error |-> <<>>]]

BadRequest(msg) == [status |-> StatusBadRequest, body |-> [error |-> <<msg>>]]

\* the handler writes its response without having called the lookup
Reply(c, r) ==
  /\ status' = [status EXCEPT ![c] = r.status]
  /\ body'   = [body EXCEPT ![c] = r.body]
  /\ pc'     = [pc EXCEPT ![c] = "responded"]
  /\ UNCHANGED result

\* the lookup returns res to the handler, which writes its response
Finish(c, res) ==
  LET r == IF kind[c] = "whois" THEN WhoisLookupResponse(query[c].domain, res)
           ELSE SSLCheckResponse(query[c].host, res)
  IN  /\ result' = [result EXCEPT ![c] = res]
      /\ status' = [status EXCEPT ![c] = r.status]
      /\ body'   = [body EXCEPT ![c] = r.body]
      /\ pc'     = [pc EXCEPT ![c] = "responded"]

\* WhoisLookupHandler up to the first dial of GetWhoisInfo
WhoisLookupHandler(c) ==
  /\ UNCHANGED << clock, parserVars, callVars >>
  /\ pc[c] = "request" /\ kind[c] = "whois"
  /\ LET dq == query[c].domain
         v  == ValidateDomain(dq)
         rs == ReadServers(WhoisServers, v.tld)
     IN  IF dq = <<>>
           THEN /\ Reply(c, BadRequest("domain query parameter is required"))
                /\ UNCHANGED << WhoisServers, domain, servers, idx >>
         ELSE IF v.err # Nil
           THEN /\ Finish(c, [rec |-> Nil, err |-> v.err])
                /\ domain' = [domain EXCEPT ![c] = v.domain]
                /\ UNCHANGED << WhoisServers, servers, idx >>
         ELSE /\ domain' = [domain EXCEPT ![c] = v.domain]
              /\ WhoisServers' = rs.table
              /\ servers' = [servers EXCEPT ![c] = rs.servers]
              /\ idx' = [idx EXCEPT ![c] = 1]
              /\ IF Len(rs.servers) = 0
                   THEN Finish(c, [rec |-> Nil, err |-> lastErr[c]])
                   ELSE /\ pc' = [pc EXCEPT ![c] = "dial"]
                        /\ UNCHANGED << result, status, body >>
  /\ UNCHANGED << traffic, kind, query, address, lastErr, deadline, elapsed, conn,
                  attempted, outcomes, wire, steps >>

\* queryWhoisServer returned an error: GetWhoisInfo records it and goes on to
\* the next server, or returns nil, lastErr after the last one
AttemptFailed(c, e, connsLeft) ==
  LET le == LastErrUpdate(lastErr[c],
                          WhoisError(domain[c], e, CurrentServer(servers[c], idx[c])))
  IN  /\ outcomes' = [outcomes EXCEPT ![c] = Append(@, e)]
      /\ lastErr'  = [lastErr EXCEPT ![c] = le]
      /\ conn'     = [conn EXCEPT ![c] = connsLeft]
      /\ idx'      = [idx EXCEPT ![c] = NextIndex(@)]
      /\ IF NextIndex(idx[c]) <= Len(servers[c])
           THEN /\ pc' = [pc EXCEPT ![c] = "dial"]
                /\ UNCHANGED << result, status, body >>
           ELSE Finish(c, [rec |-> Nil, err |-> le])

\* a call made in the attempt on the server the loop is at: net.DialTimeout on
\* an address, conn.Write of some bytes, the scanner loop, parseWhoisResponse
\* or conn.Close, and whether it returned without error
Did(c, op, ok, target, bytes) ==
  [attempt |-> idx[c], op |-> op, ok |-> ok, target |-> target, bytes |-> bytes]

\* queryWhoisServer: net.DialTimeout
Dial(c) ==
  /\ UNCHANGED << clock, parserVars, callVars >>
  /\ pc[c] = "dial"
  /\ \E d \in Durations(ConnectTimeout), o \in {"connected", "connection refused"} :
       LET r  == DialResult(d, o)
           sv == CurrentServer(servers[c], idx[c])
           t  == elapsed[c] + d
       IN  /\ elapsed'   = [elapsed EXCEPT ![c] = t]
           /\ attempted' = [attempted EXCEPT ![c] = Append(@, sv)]
           /\ steps'     = [steps EXCEPT ![c] =
                               Append(@, Did(c, "dial", r = "connected",
                                             [host |-> sv, port |-> WhoisPort], <<>>))]
           /\ IF r = "connected"
                THEN /\ conn'     = [conn EXCEPT ![c] = Append(@, sv)]
                     /\ deadline' = [deadline EXCEPT ![c] = t + OperationDeadline]
                     /\ pc'       = [pc EXCEPT ![c] = "write"]
                     /\ UNCHANGED << idx, lastErr, outcomes, result, status, body >>
                ELSE /\ AttemptFailed(c, WrapError("connection failed", NetError(r)),
                                      conn[c])
                     /\ UNCHANGED deadline
  /\ UNCHANGED << traffic, WhoisServers, kind, query, domain, servers, address, wire >>

\* queryWhoisServer: conn.Write
Write(c) ==
  /\ UNCHANGED << clock, parserVars, callVars >>
  /\ pc[c] = "write"
  /\ \E d \in Durations(DeadlineInForce(deadline[c], elapsed[c]) - elapsed[c]),
        o \in {"written", "broken pipe"} :
       LET t == elapsed[c] + d
           r == DeadlineResult(t, DeadlineInForce(deadline[c], elapsed[c]), o)
       IN  /\ elapsed' = [elapsed EXCEPT ![c] = t]
           /\ steps' = [steps EXCEPT ![c] =
                           @ \o << Did(c, "write", r = "written", NoAddress,
                                       QueryBytes(domain[c])) >>
                             \o (IF r = "written" THEN <<>>
                                 ELSE << Did(c, "close", TRUE, NoAddress, <<>>) >>)]
           /\ IF r = "written"
                THEN /\ wire' = [wire EXCEPT ![c] =
                                   Append(@, [server |-> CurrentServer(servers[c], idx[c]),
                                              bytes  |-> QueryBytes(domain[c])])]
                     /\ pc'   = [pc EXCEPT ![c] = "read"]
                     /\ UNCHANGED << idx, lastErr, conn, outcomes, result, status, body >>
                ELSE /\ AttemptFailed(c, WrapError("write failed", NetError(r)),
                                      ConnsAfterReturn(conn[c], "write failed"))
                     /\ UNCHANGED wire
  /\ UNCHANGED << traffic, WhoisServers, kind, query, domain, servers, address, deadline,
                  attempted >>

\* queryWhoisServer: the scanner loop up to the end of the stream, and the rest
\* of the function
Read(c) ==
  /\ UNCHANGED << clock, parserVars, callVars >>
  /\ pc[c] = "read"
  /\ \E d \in Durations(DeadlineInForce(deadline[c], elapsed[c]) - elapsed[c]),
        o \in {"EOF", "connection reset"}, lines \in Responses :
       LET t       == elapsed[c] + d
           r       == DeadlineResult(t, DeadlineInForce(deadline[c], elapsed[c]), o)
           rawData == RawDataOf(lines)
           sv      == CurrentServer(servers[c], idx[c])
       IN  /\ elapsed' = [elapsed EXCEPT ![c] = t]
           /\ steps' = [steps EXCEPT ![c] =
                           @ \o << Did(c, "read", r = "EOF", NoAddress, <<>>) >>
                             \o (IF r = "EOF" /\ ~EmptyResponse(rawData)
                                   THEN << Did(c, "parse", TRUE, NoAddress, rawData) >>
                                 ELSE <<>>)
                             \o << Did(c, "close", TRUE, NoAddress, <<>>) >>]
           /\ IF r # "EOF"
                THEN AttemptFailed(c, WrapError("read failed", NetError(r)),
                                   ConnsAfterReturn(conn[c], "read failed"))
              ELSE IF EmptyResponse(rawData)
                THEN AttemptFailed(c, PlainError("empty response from server"),
                                   ConnsAfterReturn(conn[c], "empty response"))
              ELSE /\ outcomes' = [outcomes EXCEPT ![c] = Append(@, Answered(rawData))]
                   /\ conn'     = [conn EXCEPT ![c] = ConnsAfterReturn(@, "ok")]
                   /\ Finish(c, [rec |-> parseWhoisResponse(domain[c], rawData, sv),
                                 err |-> Nil])
                   /\ UNCHANGED << idx, lastErr >>
  /\ UNCHANGED << traffic, WhoisServers, kind, query, domain, servers, address, deadline,
                  attempted, wire >>

\* ------------------------------------------------------------- GetSSLInfo
\* the check for an empty host left out
EmptyDomainNever(d) == FALSE

\* GetSSLInfo: domain == ""
EmptyDomain(d) == d = <<>>

\* targetPort := 443; if len(port) > 0 && port[0] > 0 { targetPort = port[0] }
TargetPort(port) == IF port > 0 THEN port ELSE DefaultPort

\* port, err = strconv.Atoi(portQueryStr); err != nil || port <= 0 || port > 65535
InvalidPort(a) == a.err \/ a.val <= 0 \/ a.val > MaxPort

\* SSLCheckHandler up to the dial of GetSSLInfo
SSLCheckHandler(c) ==
  /\ UNCHANGED << clock, parserVars, callVars >>
  /\ pc[c] = "request" /\ kind[c] = "ssl"
  /\ LET hq   == query[c].host
         pq   == query[c].port
         a    == Atoi(pq)
         port == IF pq = <<>> THEN 0 ELSE a.val
         d    == NormalizeDomain(hq)
     IN  IF hq = <<>>
           THEN /\ Reply(c, BadRequest("host query parameter is required"))
                /\ UNCHANGED << domain, address >>
         ELSE IF pq # <<>> /\ InvalidPort(a)
           THEN /\ Reply(c, BadRequest("Invalid port number"))
                /\ UNCHANGED << domain, address >>
         ELSE IF EmptyDomain(d)
           THEN /\ Finish(c, [rec |-> Nil, err |-> ErrEmptyDomain])
                /\ domain' = [domain EXCEPT ![c] = d]
                /\ UNCHANGED address
         ELSE /\ domain'  = [domain EXCEPT ![c] = d]
              /\ address' = [address EXCEPT ![c] = [host |-> d, port |-> TargetPort(port)]]
              /\ pc'      = [pc EXCEPT ![c] = "tlsdial"]
              /\ UNCHANGED << result, status, body >>
  /\ UNCHANGED << traffic, WhoisServers, kind, query, servers, idx, lastErr, deadline, elapsed,
                  conn, attempted, outcomes, wire, steps >>

\* GetSSLInfo: tls.DialWithDialer and the rest of the function
TLSDial(c) ==
  /\ UNCHANGED << parserVars, callVars >>
  /\ pc[c] = "tlsdial"
  /\ \E d \in Durations(ConnectTimeout), o \in {"connected", "handshake failure"},
        certs \in Presented, clk \in Readings :
       LET r      == DialResult(d, o)
           opened == Append(conn[c], address[c])
       IN  /\ elapsed'   = [elapsed EXCEPT ![c] = @ + d]
           /\ attempted' = [attempted EXCEPT ![c] = Append(@, address[c])]
           /\ IF r # "connected"
                THEN /\ outcomes' = [outcomes EXCEPT ![c] = Append(@, NetError(r))]
                     /\ UNCHANGED << conn, clock >>
                     /\ Finish(c, [rec |-> Nil, err |-> SSLError(domain[c], NetError(r))])
              ELSE IF NoCertificates(certs)
                THEN /\ outcomes' = [outcomes EXCEPT ![c] = Append(@, Answered(certs))]
                     /\ conn' = [conn EXCEPT ![c] = ConnsAfterReturn(opened, "no certificates")]
                     /\ UNCHANGED clock
                     /\ Finish(c, [rec |-> Nil,
                                   err |-> SSLError(domain[c],
                                                    PlainError("no certificates found"))])
              ELSE /\ outcomes' = [outcomes EXCEPT ![c] = Append(@, Answered(certs))]
                   /\ conn' = [conn EXCEPT ![c] = ConnsAfterReturn(opened, "ok")]
                   /\ clock' = [clock EXCEPT ![c] = clk]
                   /\ Finish(c, [rec |-> SSLInfoOf(domain[c], certs, clk), err |-> Nil])
  /\ UNCHANGED << traffic, WhoisServers, kind, query, domain, servers, address, idx, lastErr,
                  deadline, wire, steps >>

\* info := &WhoisInfo{Domain: domain, RawData: rawData, WhoisServer: server}
NewWhoisInfo(d, rawData, server) ==
  [Domain          |-> parseWhoisResponse(d, rawData, server).Domain,
   RawData         |-> parseWhoisResponse(d, rawData, server).RawData,
   WhoisServer     |-> parseWhoisResponse(d, rawData, server).WhoisServer,
   Registrar       |-> <<>>,
   CreationDate    |-> ZeroTime,
   ExpirationDate  |-> ZeroTime,
   UpdatedDate     |-> ZeroTime,
   NameServers     |-> <<>>,
   Status          |-> <<>>,
   RegistrantOrg   |-> <<>>,
   RegistrantEmail |-> <<>>,
   AdminEmail      |-> <<>>,
   TechEmail       |-> <<>>]

\* a line the loop processes although it is a comment
SkippedNever(line) == FALSE

\* line == "" || strings.HasPrefix(line, "%") || strings.HasPrefix(line, "#")
Skipped(line) == line = <<>> \/ HasPrefix(line, <<"%">>) \/ HasPrefix(line, <<"#">>)

\* a single-valued field that keeps its first value
StringFieldKeepFirst(old, match, g) ==
  IF Len(match) > g /\ old = <<>> THEN TrimSpace(match[g + 1]) ELSE old

\* if match := ...; len(match) > g { field = strings.TrimSpace(match[g]) }
StringField(old, match, g) ==
  IF Len(match) > g THEN TrimSpace(match[g + 1]) ELSE old

\* a date field set to the Unix epoch when its text does not parse
DateFieldEpoch(old, match, g) ==
  IF Len(match) > g
    THEN (IF IsZero(parseDate(match[g + 1])) THEN Date(1970, 1, 1, 0, 0, 0, 0)
          ELSE parseDate(match[g + 1]))
  ELSE old

\* a date field set to whatever parseDate returns
DateFieldReset(old, match, g) == IF Len(match) > g THEN parseDate(match[g + 1]) ELSE old

\* if match := ...; len(match) > g { if date := parseDate(match[g]); !date.IsZero() { field = date } }
DateField(old, match, g) ==
  IF Len(match) > g /\ ~IsZero(parseDate(match[g + 1])) THEN parseDate(match[g + 1]) ELSE old

\* if match := ...; len(match) > g { list = append(list, item) }
ListField(old, match, g, item) == IF Len(match) > g THEN Append(old, item) ELSE old

\* the body of the loop over the lines
ParseLineInto(i, rawLine) ==
  LET line  == TrimSpace(rawLine)
      m(p)  == FindStringSubmatch(patterns[p], line)
      ns    == m("name_server")
      st    == m("status")
  IN  IF Skipped(line) THEN i
      ELSE [i EXCEPT
              !.Registrar       = StringField(@, m("registrar"), 1),
              !.CreationDate    = DateField(@, m("creation_date"), 2),
              !.ExpirationDate  = DateField(@, m("expiration_date"), 2),
              !.UpdatedDate     = DateField(@, m("updated_date"), 2),
              !.NameServers     = ListField(@, ns, 1,
                                    IF Len(ns) > 1 THEN ToLower(TrimSpace(ns[2])) ELSE <<>>),
              !.Status          = ListField(@, st, 2,
                                    IF Len(st) > 2 THEN TrimSpace(st[3]) ELSE <<>>),
              !.RegistrantOrg   = StringField(@, m("registrant_org"), 1),
              !.RegistrantEmail = StringField(@, m("registrant_email"), 1),
              !.AdminEmail      = StringField(@, m("admin_email"), 1),
              !.TechEmail       = StringField(@, m("tech_email"), 1)]

\* only the name servers deduplicated
DeduplicatedNameServersOnly(i) == [i EXCEPT !.NameServers = removeDuplicates(@)]

\* info.NameServers = removeDuplicates(info.NameServers), and the same for Status
Deduplicated(i) ==
  [i EXCEPT !.NameServers = removeDuplicates(@), !.Status = removeDuplicates(@)]

\* parseWhoisResponse is called: the record and the lines of the text
ParseBegin ==
  /\ parsing = "call"
  /\ info'       = NewWhoisInfo(Chars("e.c"), whoisText, "whois.iana.org")
  /\ whoisLines' = Split(whoisText, "\n")
  /\ lineNo'     = 1
  /\ parsing'    = "loop"
  /\ UNCHANGED << whoisText, collected >>

\* one turn of the loop; after the last line the lists are deduplicated and
\* the record is returned
ParseLine ==
  /\ parsing = "loop"
  /\ \E i \in { ParseLineInto(info, whoisLines[lineNo]) } :
       /\ collected' = [NameServers |-> i.NameServers, Status |-> i.Status]
       /\ IF lineNo = Len(whoisLines)
            THEN /\ info' = Deduplicated(i)
                 /\ parsing' = "returned"
            ELSE /\ info' = i
                 /\ parsing' = "loop"
  /\ lineNo' = lineNo + 1
  /\ UNCHANGED << whoisText, whoisLines >>

\* ------------------------------------------------------ function calls
NoReturn == [none |-> TRUE]
NoCall   == [fn |-> "none"]

\* removeDuplicates(slice) is called and returns
CallRemoveDuplicates ==
  /\ call.fn = "removeDuplicates" /\ ret = NoReturn
  /\ ret' = [value |-> removeDuplicates(call.slice)]
  /\ UNCHANGED call

\* parseDate(dateStr) is called and returns
\* CleanURL(rawURL)
CallCleanURL ==
  /\ call.fn = "CleanURL" /\ ret = NoReturn
  /\ \E removedOrder \in RemovedOrders(call.rawURL, call.params) :
       ret' = [value |-> CleanURL(call.rawURL, call.params, removedOrder)]
  /\ UNCHANGED call

CallParseDate ==
  /\ call.fn = "parseDate" /\ ret = NoReturn
  /\ ret' = [value |-> parseDate(call.dateStr)]
  /\ UNCHANGED call

\* matchesDomain(cert, domain) is called and returns
CallMatchesDomain ==
  /\ call.fn = "matchesDomain" /\ ret = NoReturn
  /\ ret' = [value |-> matchesDomain(call.cert, call.domain)]
  /\ UNCHANGED call

\* validateCertificate(cert, domain) is called and returns
CallValidateCertificate ==
  /\ call.fn = "validateCertificate" /\ ret = NoReturn
  /\ ret' = [value |-> validateCertificate(call.cert, call.domain, call.nowAfter,
                                           call.nowBefore)]
  /\ UNCHANGED call

\* ----------------------------------------------------------- specifications
Requests ==
  { [kind |-> "whois", query |-> q] : q \in WhoisQueries } \cup
  { [kind |-> "ssl", query |-> q] : q \in SSLQueries }

FewRequests ==
  { [kind |-> "whois", query |-> q] : q \in FewWhoisQueries } \cup
  { [kind |-> "ssl", query |-> q] : q \in FewSSLQueries }

\* no request has arrived; the callers in cs will send one each, of traffic t
LookupsInit(cs, t) ==
  /\ traffic = t
  /\ WhoisServers = WhoisServersTable
  /\ kind      = [c \in Callers |-> "whois"]
  /\ query     = [c \in Callers |-> [domain |-> <<>>]]
  /\ pc        = [c \in Callers |-> IF c \in cs THEN "idle" ELSE "off"]
  /\ domain    = [c \in Callers |-> <<>>]
  /\ servers   = [c \in Callers |-> <<>>]
  /\ address   = [c \in Callers |-> NoAddress]
  /\ idx       = [c \in Callers |-> 0]
  /\ lastErr   = [c \in Callers |-> Nil]
  /\ deadline  = [c \in Callers |-> 0]
  /\ elapsed   = [c \in Callers |-> 0]
  /\ conn      = [c \in Callers |-> <<>>]
  /\ attempted = [c \in Callers |-> <<>>]
  /\ outcomes  = [c \in Callers |-> <<>>]
  /\ wire      = [c \in Callers |-> <<>>]
  /\ steps     = [c \in Callers |-> <<>>]
  /\ clock     = [c \in Callers |-> <<>>]
  /\ result    = [c \in Callers |-> NoResult]
  /\ status    = [c \in Callers |-> 0]
  /\ body      = [c \in Callers |-> NoBody]

\* --------------------------------------------------------- DNSLookupHandler
SharedSlice == [shared |-> TRUE, elems |-> <<>>]
OwnSlice(elems) == [shared |-> FALSE, elems |-> elems]

\* the elements of a slice as they are in memory
ElementsOf(slice) == IF slice.shared THEN defaultDNSRecordTypes ELSE slice.elems

\* the values other requests are about to store into element i of the
\* slice of c: only the shared slice has other writers
StoresInFlight(c, i) ==
  { Normalized(rt[d]) :
      d \in { e \in Callers \ {c} : /\ typesToLookup[c].shared
                                     /\ dnsPc[e] = "store"
                                     /\ typesToLookup[e].shared
                                     /\ rangeIndex[e] = i } }

\* what a read of element i can return: the value in memory, or, while
\* another request is storing into it, a mix of the two headers
Observed(c, i) ==
  LET held == ElementsOf(typesToLookup[c])[i]
  IN  {held} \cup UNION { { Torn(held, w), Torn(w, held) } : w \in StoresInFlight(c, i) }

\* the request of a caller reaches the handler
DNSReceive(c) ==
  /\ dnsPc[c] \in {"idle", "responded"}
  /\ \E r \in DNSRequests : dnsQuery' = [dnsQuery EXCEPT ![c] = r]
  /\ dnsPc' = [dnsPc EXCEPT ![c] = "handler"]
  /\ typesToLookup' = [typesToLookup EXCEPT ![c] = OwnSlice(<<>>)]
  /\ rangeIndex' = [rangeIndex EXCEPT ![c] = 0]
  /\ rt' = [rt EXCEPT ![c] = <<>>]
  /\ dnsStatus' = [dnsStatus EXCEPT ![c] = 0]
  /\ dnsBody' = [dnsBody EXCEPT ![c] = NoBody]
  /\ UNCHANGED defaultDNSRecordTypes

\* where the range loop goes with index i over a slice of n elements
LoopAt(i, n) == IF i <= n THEN "range" ELSE "lookup"

\* DNSLookupHandler up to the loop: the domain check and the choice of slice
DNSLookupHandler(c) ==
  /\ dnsPc[c] = "handler"
  /\ IF dnsQuery[c].domain = <<>>
     THEN /\ dnsStatus' = [dnsStatus EXCEPT ![c] = StatusBadRequest]
          /\ dnsBody' = [dnsBody EXCEPT ![c] = [error |-> "domain query parameter is required"]]
          /\ dnsPc' = [dnsPc EXCEPT ![c] = "responded"]
          /\ UNCHANGED << typesToLookup, rangeIndex >>
     ELSE LET recordTypesQuery == QueryArray(dnsQuery[c].record_types)
              slice == IF Len(recordTypesQuery) = 0 /\ ~dnsQuery[c].record_types.present
                       THEN SharedSlice
                       ELSE OwnSlice(recordTypesQuery)
          IN  /\ typesToLookup' = [typesToLookup EXCEPT ![c] = slice]
              /\ rangeIndex' = [rangeIndex EXCEPT ![c] = 1]
              /\ dnsPc' = [dnsPc EXCEPT ![c] = LoopAt(1, Len(ElementsOf(slice)))]
              /\ UNCHANGED << dnsStatus, dnsBody >>
  /\ UNCHANGED << defaultDNSRecordTypes, dnsQuery, rt >>

\* for i, rt := range typesToLookup: the read of element i
RangeRead(c) ==
  /\ dnsPc[c] = "range"
  /\ \E v \in Observed(c, rangeIndex[c]) : rt' = [rt EXCEPT ![c] = v]
  /\ dnsPc' = [dnsPc EXCEPT ![c] = "store"]
  /\ UNCHANGED << defaultDNSRecordTypes, dnsQuery, typesToLookup, rangeIndex, dnsStatus, dnsBody >>

\* typesToLookup[i] = strings.ToUpper(strings.TrimSpace(rt))
RangeStore(c) ==
  /\ dnsPc[c] = "store"
  /\ LET i == rangeIndex[c]
         v == Normalized(rt[c])
     IN  /\ IF typesToLookup[c].shared
            THEN /\ defaultDNSRecordTypes' = [defaultDNSRecordTypes EXCEPT ![i] = v]
                 /\ UNCHANGED typesToLookup
            ELSE /\ typesToLookup' = [typesToLookup EXCEPT ![c].elems[i] = v]
                 /\ UNCHANGED defaultDNSRecordTypes
         /\ rangeIndex' = [rangeIndex EXCEPT ![c] = i + 1]
         /\ dnsPc' = [dnsPc EXCEPT ![c] = LoopAt(i + 1, Len(ElementsOf(typesToLookup[c])))]
  /\ UNCHANGED << dnsQuery, rt, dnsStatus, dnsBody >>

\* the slice as LookupDNSRecords can read it
ObservedSlices(c) ==
  LET n == Len(ElementsOf(typesToLookup[c]))
  IN  { s \in [1..n -> UNION { Observed(c, i) : i \in 1..n }] :
          \A i \in 1..n : s[i] \in Observed(c, i) }

\* utils.LookupDNSRecords(domainQuery, typesToLookup) and the response
DNSRespond(c) ==
  /\ dnsPc[c] = "lookup"
  /\ \E net \in Resolvers, recordTypes \in ObservedSlices(c) :
       LET looked == LookupDNSRecords(recordTypes, net)
       IN  dnsBody' = [dnsBody EXCEPT ![c] = [Domain  |-> dnsQuery[c].domain,
                                             Records |-> looked.results,
                                             Errors  |-> looked.errors]]
  /\ dnsStatus' = [dnsStatus EXCEPT ![c] = StatusOK]
  /\ dnsPc' = [dnsPc EXCEPT ![c] = "responded"]
  /\ UNCHANGED << defaultDNSRecordTypes, dnsQuery, typesToLookup, rangeIndex, rt >>

\* no DNS request has arrived; the callers in cs will send some
DNSInit(cs) ==
  /\ defaultDNSRecordTypes = DefaultDNSRecordTypes
  /\ dnsPc         = [c \in Callers |-> IF c \in cs THEN "idle" ELSE "off"]
  /\ dnsQuery      = [c \in Callers |-> [domain |-> <<>>, record_types |-> NoRecordTypes]]
  /\ typesToLookup = [c \in Callers |-> OwnSlice(<<>>)]
  /\ rangeIndex    = [c \in Callers |-> 0]
  /\ rt            = [c \in Callers |-> <<>>]
  /\ dnsStatus     = [c \in Callers |-> 0]
  /\ dnsBody       = [c \in Callers |-> NoBody]

\* parseWhoisResponse is not being called
ParserIdle ==
  /\ parsing    = "off"
  /\ whoisText  = <<>>
  /\ whoisLines = <<>>
  /\ lineNo     = 0
  /\ info       = NewWhoisInfo(<<>>, <<>>, "")
  /\ collected  = [NameServers |-> <<>>, Status |-> <<>>]

\* no function is called on its own
NoCalls == call = NoCall /\ ret = NoReturn

InitWith(cs, t) == LookupsInit(cs, t) /\ ParserIdle /\ NoCalls /\ DNSInit({})

\* one caller, one request
Init == InitWith({1}, "any")

\* two callers, served concurrently
ConcInit == InitWith(Callers, "few")

\* one caller, one request of the small set
FewInit == InitWith({1}, "few")

Workload == IF traffic = "any" THEN Requests ELSE FewRequests

\* the router hands the request of a caller to its handler
Receive(c) ==
  /\ UNCHANGED << parserVars, callVars >>
  /\ pc[c] = "idle"
  /\ \E r \in Workload : Arrive(c, r.kind, r.query)
  /\ UNCHANGED << traffic, WhoisServers >>

Next ==
  /\ \E c \in Callers :
       \/ Receive(c)
       \/ WhoisLookupHandler(c)
       \/ Dial(c)
       \/ Write(c)
       \/ Read(c)
       \/ SSLCheckHandler(c)
       \/ TLSDial(c)
  /\ UNCHANGED dnsVars

Spec == Init /\ [][Next]_vars

ConcSpec == ConcInit /\ [][Next]_vars

\* every blocking call is bounded by a timeout or deadline, and the goroutine
\* that serves a request is always scheduled again
Step(c) ==
  /\ WhoisLookupHandler(c) \/ Dial(c) \/ Write(c) \/ Read(c) \/ SSLCheckHandler(c) \/ TLSDial(c)
  /\ UNCHANGED dnsVars

LiveSpec == FewInit /\ [][Next]_vars /\ \A c \in Callers : WF_vars(Step(c))

\* parseWhoisResponse called on a text, no request being served
ParserInit ==
  /\ LookupsInit({}, "few")
  /\ NoCalls
  /\ DNSInit({})
  /\ parsing    = "call"
  /\ whoisText  \in WhoisTexts
  /\ whoisLines = <<>>
  /\ lineNo     = 0
  /\ info       = NewWhoisInfo(<<>>, <<>>, "")
  /\ collected  = [NameServers |-> <<>>, Status |-> <<>>]

ParserNext == (ParseBegin \/ ParseLine) /\ UNCHANGED << lookupVars, callVars, dnsVars >>

ParserSpec == ParserInit /\ [][ParserNext]_vars

\* one function called on its own with arguments of the bounded sets
FuncInit ==
  /\ LookupsInit({}, "few")
  /\ ParserIdle
  /\ DNSInit({})
  /\ call \in FunctionCalls
  /\ ret = NoReturn

FuncNext ==
  (CallRemoveDuplicates \/ CallCleanURL \/ CallParseDate \/ CallMatchesDomain \/ CallValidateCertificate)
    /\ UNCHANGED << lookupVars, parserVars, dnsVars >>

FuncSpec == FuncInit /\ [][FuncNext]_vars

\* DNS requests of two callers, served concurrently, one after another
DNSSpecInit == LookupsInit({}, "few") /\ ParserIdle /\ NoCalls /\ DNSInit(Callers)

DNSNext ==
  /\ \E c \in Callers :
       \/ DNSReceive(c)
       \/ DNSLookupHandler(c)
       \/ RangeRead(c)
       \/ RangeStore(c)
       \/ DNSRespond(c)
  /\ UNCHANGED << lookupVars, parserVars, callVars >>

DNSSpec == DNSSpecInit /\ [][DNSNext]_vars

\* ------------------------------------------------------------- properties
Whois(c)     == pc[c] \notin {"off", "idle"} /\ kind[c] = "whois"
SSL(c)       == pc[c] \notin {"off", "idle"} /\ kind[c] = "ssl"
Responded(c) == pc[c] = "responded"

\* GetWhoisInfo / GetSSLInfo was called and has returned
Returned(c) == Responded(c) /\ status[c] # StatusBadRequest

AllFailed(os) == \A j \in 1..Len(os) : Failed(os[j])

\* C1: a record returned by GetWhoisInfo comes from the first candidate, in
\* list order, that answered with a non-empty response: its WhoisServer is that
\* server, all candidates before it were tried and failed, none after it was
\* contacted.
C1_FirstAnswerWins ==
  \A c \in Callers :
    Whois(c) /\ Returned(c) /\ result[c].rec # Nil =>
      LET k == Len(attempted[c])
      IN  /\ k >= 1 /\ k <= Len(servers[c])
          /\ attempted[c] = SubSeq(servers[c], 1, k)
          /\ Len(outcomes[c]) = k
          /\ AllFailed(SubSeq(outcomes[c], 1, k - 1))
          /\ ~Failed(outcomes[c][k])
          /\ outcomes[c][k].data # <<>>
          /\ result[c].rec.WhoisServer = servers[c][k]
          /\ result[c].rec.RawData = outcomes[c][k].data
          /\ result[c].err = Nil

\* a record obtained from the second candidate after the first one failed
C1_Witness ==
  \E c \in Callers :
    /\ Whois(c) /\ Returned(c) /\ result[c].rec # Nil
    /\ Len(attempted[c]) = 2
    /\ result[c].rec.WhoisServer = "whois.markmonitor.com"

\* C2: when every candidate failed, GetWhoisInfo returns no record and a
\* WhoisError holding the normalized domain, the last server of the list and
\* that server's failure; nothing of the earlier failures is kept.
C2_LastErrorOnly ==
  \A c \in Callers :
    Whois(c) /\ Returned(c) /\ Len(servers[c]) > 0
      /\ Len(outcomes[c]) = Len(servers[c]) /\ AllFailed(outcomes[c]) =>
        LET n == Len(servers[c])
        IN  /\ result[c].rec = Nil
            /\ result[c].err =
                 WhoisError(ToLower(TrimSpace(query[c].domain)), outcomes[c][n],
                            servers[c][n])

\* both candidates failed, for different reasons
C2_Witness ==
  \E c \in Callers :
    /\ Whois(c) /\ Returned(c) /\ Len(outcomes[c]) = 2 /\ AllFailed(outcomes[c])
    /\ outcomes[c][1] # outcomes[c][2]
    /\ result[c].err.Server = "whois.internic.net"

NoDuplicates(sq) == \A i, j \in 1..Len(sq) : sq[i] = sq[j] => i = j

\* C3: whatever the failure of a candidate, the lookup goes on with the next
\* candidate of the list: the servers dialled are always a prefix of the list
\* without repetition, a lookup that waits to dial has failed on all servers
\* before the one it is at, and it gives up only after the whole list.
C3_AdvanceOnFailure ==
  \A c \in Callers :
    Whois(c) =>
      /\ Len(attempted[c]) <= Len(servers[c])
      /\ attempted[c] = SubSeq(servers[c], 1, Len(attempted[c]))
      /\ NoDuplicates(attempted[c])
      /\ pc[c] = "dial" =>
           /\ idx[c] = Len(attempted[c]) + 1
           /\ Len(outcomes[c]) = Len(attempted[c])
           /\ AllFailed(outcomes[c])
      /\ pc[c] \in {"write", "read"} =>
           /\ idx[c] = Len(attempted[c])
           /\ Len(outcomes[c]) = Len(attempted[c]) - 1
           /\ AllFailed(outcomes[c])
      /\ Returned(c) /\ result[c].rec = Nil /\ Len(servers[c]) > 0 =>
           /\ attempted[c] = servers[c]
           /\ Len(outcomes[c]) = Len(servers[c])

\* the second candidate is being read after the first one sent nothing
C3_Witness ==
  \E c \in Callers :
    /\ Whois(c) /\ pc[c] = "read" /\ Len(attempted[c]) = 2
    /\ outcomes[c] = << PlainError("empty response from server") >>

\* C4: once the handler's context is done, no attempt of the lookup is in
\* flight any more and the lookup has returned at that time.
C4_CtxAbandonsLookup ==
  \A c \in Callers :
    Whois(c) /\ ctxDone(c) =>
      /\ Responded(c)
      /\ elapsed[c] = WhoisHandlerTimeout

AllSpace(s) == \A i \in 1..Len(s) : IsSpace(s[i])
NoDot(s)    == \A i \in 1..Len(s) : s[i] # "."

\* C5: a domain that is empty after trimming, or has no '.', is rejected by
\* GetWhoisInfo with an error, no server having been dialled.
C5_RejectBeforeIO ==
  \A c \in Callers :
    Whois(c) /\ pc[c] # "request" /\ query[c].domain # <<>>
      /\ (AllSpace(query[c].domain) \/ NoDot(query[c].domain)) =>
        /\ Returned(c)
        /\ result[c].rec = Nil /\ result[c].err # Nil
        /\ attempted[c] = <<>> /\ conn[c] = <<>> /\ wire[c] = <<>>
        /\ elapsed[c] = 0

\* a name without a dot was rejected
C5_Witness ==
  \E c \in Callers :
    /\ Whois(c) /\ Returned(c) /\ NoDot(query[c].domain) /\ ~AllSpace(query[c].domain)
    /\ result[c].err.kind = "invalid domain format"
    /\ attempted[c] = <<>>

\* the text after the last '.' of s
LastLabel(s) ==
  LET dots == { i \in 1..Len(s) : s[i] = "." }
      last == CHOOSE i \in dots : \A j \in dots : j <= i
  IN  SubSeq(s, last + 1, Len(s))

\* C6: the candidate list of a lookup is the list registered for the last
\* label of the lowercased domain, and the default list when none is.
C6_CandidateList ==
  \A c \in Callers :
    Whois(c) /\ (pc[c] \in InFlight \/ attempted[c] # <<>>) =>
      LET tld == LastLabel(ToLower(TrimSpace(query[c].domain)))
      IN  servers[c] = IF tld \in DOMAIN WhoisServersTable
                         THEN WhoisServersTable[tld]
                         ELSE << "whois.iana.org", "whois.internic.net" >>

\* a .Com name under another registered label uses the list of com
C6_Witness ==
  \E c \in Callers :
    /\ Whois(c) /\ pc[c] = "dial"
    /\ query[c].domain = << "n","e","t", ".", "C","o","m" >>
    /\ servers[c] = << "whois.verisign-grs.com", "whois.markmonitor.com" >>

\* C7: a request holds at most one connection at a time, and none when an
\* attempt has returned: neither while waiting to dial the next candidate nor
\* after the call has returned, whichever path it took.
C7_ConnectionsClosed ==
  \A c \in Callers :
    /\ Len(conn[c]) <= 1
    /\ pc[c] \in {"off", "idle", "request", "dial", "tlsdial", "responded"} =>
         conn[c] = <<>>
    /\ pc[c] \in {"write", "read"} => conn[c] = << servers[c][idx[c]] >>

\* two connections were opened in one lookup, the last ended on an empty
\* response, and none is open
C7_Witness ==
  \E c \in Callers :
    /\ Whois(c) /\ Returned(c) /\ Len(wire[c]) = 2
    /\ outcomes[c][2] = PlainError("empty response from server")
    /\ conn[c] = <<>>

C9_Terminates ==
  /\ \A c \in Callers :
       (Whois(c) /\ pc[c] = "request") ~>
         (Responded(c) /\ (Returned(c) => (result[c].rec = Nil) # (result[c].err = Nil)))
  /\ [][\A c \in Callers :
          Whois(c) => /\ Len(attempted'[c]) <= Len(servers'[c])
                      /\ elapsed'[c] <= Len(attempted'[c]) *
                                          (ConnectTimeout + OperationDeadline)]_vars

TimedOut(o) == o.kind = "wrap" /\ o.Err.msg = "i/o timeout"

\* a lookup returned after both of its attempts had timed out
C9_Witness ==
  \E c \in Callers :
    /\ Whois(c) /\ Returned(c) /\ Len(outcomes[c]) = 2
    /\ TimedOut(outcomes[c][1]) /\ TimedOut(outcomes[c][2])
    /\ result[c].err # Nil

AllDigits(s) == s # <<>> /\ \A i \in 1..Len(s) : s[i] \in Digits
PortInRange(s) == AllDigits(s) /\ DecimalValue(s) >= 1 /\ DecimalValue(s) <= MaxPort

\* the request has a non-empty domain, or a non-empty host and no or a valid port
WellFormed(c) ==
  IF kind[c] = "whois" THEN query[c].domain # <<>>
  ELSE query[c].host # <<>> /\ (query[c].port = <<>> \/ PortInRange(query[c].port))

RecordData(c) == IF kind[c] = "whois" THEN body[c].WhoisServer # ""
                 ELSE body[c].CertificateChain # <<>>

\* C10: a well-formed WHOIS or TLS request is answered with status 200 whether
\* the lookup succeeded or not; after a failure the body has the error text and
\* no record data, after a success it has an empty error field.
C10_AlwaysOK ==
  \A c \in Callers :
    Responded(c) /\ WellFormed(c) =>
      /\ status[c] = StatusOK
      /\ result[c].err # Nil =>
           /\ body[c].Error # <<>> /\ body[c].Error = ErrorString(result[c].err)
           /\ ~RecordData(c)
      /\ result[c].err = Nil => body[c].Error = <<>> /\ RecordData(c)

\* a WHOIS lookup that failed on all servers was answered with 200 and the error
C10_Witness ==
  \E c \in Callers :
    /\ Whois(c) /\ Responded(c) /\ status[c] = StatusOK
    /\ Len(outcomes[c]) = 2 /\ result[c].err # Nil
    /\ body[c].Error # <<>>

\* ---------------------------------------------- properties of the parser
Range(sq) == { sq[i] : i \in 1..Len(sq) }

\* the line is blank or its first character after the white space is % or #
CommentLine(raw) ==
  LET solid == { i \in 1..Len(raw) : ~IsSpace(raw[i]) }
  IN  solid = {} \/ raw[CHOOSE i \in solid : \A j \in solid : i <= j] \in {"%", "#"}

\* the lines of the text that are no comments and match the expression p,
\* among the first n lines
Hits(p, n) ==
  { k \in 1..n : /\ k <= Len(whoisLines)
                 /\ ~CommentLine(whoisLines[k])
                 /\ FindStringSubmatch(patterns[p], TrimSpace(whoisLines[k])) # <<>> }

\* the text of the last group of p on line k
ValueAt(p, k) ==
  LET match == FindStringSubmatch(patterns[p], TrimSpace(whoisLines[k]))
  IN  match[Len(match)]

\* C11: in the record parseWhoisResponse returns, the NameServers list and the
\* Status list contain no entry twice, whatever the text; name servers are
\* compared as stored, in lower case and trimmed.
C11_NoDuplicateEntries ==
  parsing = "returned" =>
    /\ NoDuplicates(info.NameServers)
    /\ NoDuplicates(info.Status)
    /\ \A i \in 1..Len(info.NameServers) :
         info.NameServers[i] = ToLower(TrimSpace(info.NameServers[i]))

\* a text that names the same status twice has been parsed
C11_Witness ==
  /\ parsing = "returned"
  /\ Len(collected.Status) = 2 /\ collected.Status[1] = collected.Status[2]
  /\ Len(info.Status) = 1

\* the items of a slice at the positions where a value occurs for the first time
FirstOccurrences(slice) ==
  LET keep == { i \in 1..Len(slice) : \A j \in 1..(i - 1) : slice[j] # slice[i] }
      nth(k) == CHOOSE i \in keep : Cardinality({ j \in keep : j < i }) = k - 1
  IN  [k \in 1..Cardinality(keep) |-> slice[nth(k)]]

\* C12: removeDuplicates returns the subsequence of its input made of the
\* first occurrence of each value: the values are those of the input, and
\* applying it to its own output changes nothing.
C12_FirstOccurrenceKept ==
  (call.fn = "removeDuplicates" /\ ret # NoReturn) =>
    /\ ret.value = FirstOccurrences(call.slice)
    /\ Range(ret.value) = Range(call.slice)
    /\ removeDuplicates(ret.value) = ret.value

\* a slice whose first value comes again after another one has been deduplicated
C12_Witness ==
  /\ call.fn = "removeDuplicates" /\ ret # NoReturn
  /\ call.slice = << "a", "b", "a" >>
  /\ ret.value = << "a", "b" >>

ScalarFields ==
  { "Registrar", "CreationDate", "ExpirationDate", "UpdatedDate", "RegistrantOrg",
    "RegistrantEmail", "AdminEmail", "TechEmail" }

\* C13: a turn of the loop on a blank line, or on a line that begins with % or #
\* after trimming, leaves every field of the record as it was, whatever
\* labels the line contains.
C13_CommentLinesIgnored ==
  [][(parsing = "loop" /\ CommentLine(whoisLines[lineNo])) =>
       /\ collected' = [NameServers |-> info.NameServers, Status |-> info.Status]
       /\ \A f \in ScalarFields : info'[f] = info[f]]_vars

\* a comment line with the registrar label has been passed after a registrar line
C13_Witness ==
  /\ parsing \in {"loop", "returned"} /\ lineNo >= 3
  /\ whoisLines[1] = Chars("Registrar: R1")
  /\ whoisLines[2] = Chars("% Registrar: X")
  /\ info.Registrar = Chars("R1")

SingleValued ==
  [Registrar |-> "registrar", RegistrantOrg |-> "registrant_org",
   RegistrantEmail |-> "registrant_email", AdminEmail |-> "admin_email",
   TechEmail |-> "tech_email"]

\* C14: each single-valued field of the returned record holds the value of the
\* last line that is no comment and matches the expression of the field, and
\* is empty when there is no such line.
C14_LastMatchWins ==
  parsing = "returned" =>
    \A f \in DOMAIN SingleValued :
      LET hits == Hits(SingleValued[f], Len(whoisLines))
      IN  info[f] = IF hits = {} THEN <<>>
                    ELSE TrimSpace(ValueAt(SingleValued[f],
                                           CHOOSE k \in hits : \A j \in hits : j <= k))

\* two registrar lines with different values have been parsed
C14_Witness ==
  /\ parsing = "returned"
  /\ whoisLines[1] = Chars("Registrar: R1")
  /\ whoisLines[2] = Chars("registrar:r2")
  /\ info.Registrar = Chars("r2")

DateFields ==
  [CreationDate |-> "creation_date", ExpirationDate |-> "expiration_date",
   UpdatedDate |-> "updated_date"]

\* C15: at every point of the parse each date field is the zero time or what
\* parseDate made of a line already read that matches the expression of the
\* field; it never holds any other time.
C15_DatesZeroOrParsed ==
  \A f \in DOMAIN DateFields :
    \/ IsZero(info[f])
    \/ \E k \in Hits(DateFields[f], lineNo - 1) :
         parseDate(ValueAt(DateFields[f], k)) = info[f]

\* a creation date has been parsed and an expiry line that does not parse has
\* left the expiration date zero
C15_Witness ==
  /\ parsing = "returned"
  /\ ~IsZero(info.CreationDate)
  /\ Hits("expiration_date", Len(whoisLines)) # {}
  /\ IsZero(info.ExpirationDate)

\* ------------------------------------------- properties of the TLS probe
\* what the peer of request c presented once the handshake had completed
Shown(c) ==
  IF outcomes[c] # <<>> /\ ~Failed(outcomes[c][Len(outcomes[c])])
    THEN outcomes[c][Len(outcomes[c])].data
  ELSE <<>>

Messages ==
  << "certificate has expired", "certificate is not yet valid",
     "certificate does not match domain", "no revocation checking mechanism available" >>

C17_SingleAttempt ==
  \A c \in Callers :
    SSL(c) =>
      /\ Len(attempted[c]) <= 1
      /\ AllSpace(query[c].host) => attempted[c] = <<>> /\ conn[c] = <<>> /\ elapsed[c] = 0
      /\ (Returned(c) /\ AllSpace(query[c].host)) =>
           result[c].rec = Nil /\ result[c].err # Nil
      /\ (Returned(c) /\ ~AllSpace(query[c].host)) =>
           /\ Len(attempted[c]) = 1 /\ Len(outcomes[c]) = 1
           /\ attempted[c][1].host = ToLower(TrimSpace(query[c].host))
      /\ (Returned(c) /\ ~AllSpace(query[c].host) /\ Len(Shown(c)) = 0) =>
           /\ result[c].rec = Nil
           /\ result[c].err.kind = "SSLError"
           /\ result[c].err.Domain = ToLower(TrimSpace(query[c].host))

\* a probe has failed on a peer without certificates, another on a host of
\* white space only
C17_Witness ==
  \E c \in Callers :
    /\ SSL(c) /\ Returned(c) /\ result[c].rec = Nil
    /\ \/ /\ outcomes[c] = << Answered(<<>>) >>
          /\ result[c].err.kind = "SSLError"
       \/ /\ query[c].host = <<" ">>
          /\ result[c].err = ErrEmptyDomain

\* the place of a message in the order of the four checks
Rank(msg) == CHOOSE k \in 1..Len(Messages) : Messages[k] = msg

\* C18: the list validateCertificate returns holds the message of each of the
\* four checks exactly when its condition holds, whatever the other checks
\* find, in the order expired, not yet valid, does not match, no revocation;
\* so it is empty exactly when no condition holds.
C18_IndependentChecks ==
  (call.fn = "validateCertificate" /\ ret # NoReturn) =>
    LET out  == ret.value
        crt  == call.cert
    IN  /\ Range(out) \subseteq Range(Messages)
        /\ Messages[1] \in Range(out) <=> call.nowAfter > crt.NotAfter
        /\ Messages[2] \in Range(out) <=> call.nowBefore < crt.NotBefore
        /\ Messages[3] \in Range(out) <=> ~matchesDomain(crt, call.domain)
        /\ Messages[4] \in Range(out) <=>
             (crt.CRLDistributionPoints = <<>> /\ crt.OCSPServer = <<>>)
        /\ \A i, j \in 1..Len(out) : i < j => Rank(out[i]) < Rank(out[j])

\* a certificate that fails three checks at once has been validated
C18_Witness ==
  /\ call.fn = "validateCertificate" /\ ret # NoReturn
  /\ ret.value = << Messages[1], Messages[3], Messages[4] >>

\* the name is a wildcard for the domain, letter case ignored
WildcardCovers(name, d) ==
  /\ HasPrefix(name, Chars("*."))
  /\ LET base == ToLower(SubSeq(name, 3, Len(name)))
     IN  ToLower(d) = base \/ HasSuffix(ToLower(d), <<".">> \o base)

\* C19: matchesDomain is true exactly when the common name or a SAN equals the
\* domain, letter case ignored, or a SAN *.base has the domain equal to base
\* or ending with .base, letter case ignored.
C19_MatchesDomain ==
  (call.fn = "matchesDomain" /\ ret # NoReturn) =>
    (ret.value <=>
       \/ EqualFold(call.cert.Subject.CommonName, call.domain)
       \/ \E i \in 1..Len(call.cert.DNSNames) :
            \/ EqualFold(call.cert.DNSNames[i], call.domain)
            \/ WildcardCovers(call.cert.DNSNames[i], call.domain))

\* C20: DaysUntilExpiry of a returned record is the floor of the days from
\* the reading of the clock to notAfter, and is negative whenever notAfter is
\* before that reading.
C20_DaysFloor ==
  \A c \in Callers :
    (SSL(c) /\ Returned(c) /\ result[c].rec # Nil) =>
      LET rec == result[c].rec
          now == clock[c][2]
      IN  /\ rec.DaysUntilExpiry = (rec.NotAfter - now) \div HoursPerDay
          /\ rec.NotAfter < now => rec.DaysUntilExpiry < 0

\* C21: IsValid of a returned record is true exactly when DaysUntilExpiry is
\* positive and the clock, as read for the flag, is after notBefore; so it is
\* false for a certificate whose notAfter is before the call's first reading of
\* the clock or whose notBefore is after its last.
C21_ValidOnlyInWindow ==
  \A c \in Callers :
    (SSL(c) /\ Returned(c) /\ result[c].rec # Nil) =>
      LET rec  == result[c].rec
          leaf == Shown(c)[1]
      IN  /\ rec.IsValid <=> (rec.DaysUntilExpiry > 0 /\ clock[c][3] > leaf.NotBefore)
          /\ leaf.NotAfter < clock[c][1] => ~rec.IsValid
          /\ leaf.NotBefore > clock[c][5] => ~rec.IsValid

\* a certificate with more than a day left that is not valid yet has been
\* reported as not valid
C21_Witness ==
  \E c \in Callers :
    /\ SSL(c) /\ Returned(c) /\ result[c].rec # Nil
    /\ result[c].rec.DaysUntilExpiry > 0
    /\ result[c].rec.NotBefore > clock[c][5]
    /\ ~result[c].rec.IsValid

\* C22: the CertificateChain of a returned record has one entry per certificate
\* the peer presented, in the order presented: at least one, the first being
\* the leaf, whose subject, issuer and validity window are those of the record.
C22_ChainAsPresented ==
  \A c \in Callers :
    (SSL(c) /\ Returned(c) /\ result[c].rec # Nil) =>
      LET rec   == result[c].rec
          chain == rec.CertificateChain
          certs == Shown(c)
      IN  /\ Len(chain) = Len(certs) /\ Len(chain) >= 1
          /\ \A i \in 1..Len(chain) :
               /\ chain[i].Subject = NameString(certs[i].Subject)
               /\ chain[i].Issuer = NameString(certs[i].Issuer)
               /\ chain[i].NotBefore = certs[i].NotBefore
               /\ chain[i].NotAfter = certs[i].NotAfter
               /\ chain[i].IsCA = certs[i].IsCA
          /\ chain[1].Subject = rec.Subject /\ chain[1].Issuer = rec.Issuer
          /\ chain[1].NotBefore = rec.NotBefore /\ chain[1].NotAfter = rec.NotAfter

\* a leaf and the certificate of its issuer have been presented and recorded
C22_Witness ==
  \E c \in Callers :
    /\ SSL(c) /\ Returned(c) /\ result[c].rec # Nil
    /\ Len(result[c].rec.CertificateChain) = 2
    /\ result[c].rec.CertificateChain[1].Subject # result[c].rec.CertificateChain[2].Subject
    /\ result[c].rec.CertificateChain[2].Subject = result[c].rec.Issuer

C26_RecordXorError ==
  \A c \in Callers :
    (Whois(c) /\ Returned(c)) =>
      /\ (result[c].rec = Nil) # (result[c].err = Nil)
      /\ ValidateDomain(query[c].domain).err = Nil =>
           /\ Len(servers[c]) >= 1
           /\ Len(attempted[c]) >= 1
           /\ AllFailed(outcomes[c]) => result[c].err # Nil /\ result[c].rec = Nil

\* a name under a TLD without an entry has failed on both default servers
C26_Witness ==
  \E c \in Callers :
    /\ Whois(c) /\ Returned(c)
    /\ query[c].domain = << "a", ".", "x", "y" >>
    /\ attempted[c] = << "whois.iana.org", "whois.internic.net" >>
    /\ result[c].rec = Nil /\ result[c].err # Nil

\* --------------------------------------- properties of the lookup, continued
\* the calls made in the a-th attempt of request c, in order
AttemptSteps(c, a) == SelectSeq(steps[c], LAMBDA s : s.attempt = a)

\* the orders in which two calls of one attempt may follow each other
MayFollow ==
  { << "dial", "write" >>, << "dial", "read" >>, << "dial", "parse" >>, << "dial", "close" >>,
    << "write", "read" >>, << "write", "parse" >>, << "write", "close" >>,
    << "read", "parse" >>, << "read", "close" >>,
    << "parse", "close" >>, << "close", "parse" >> }

\* C25: an attempt on a WHOIS server makes its calls in the order connect,
\* write, read, close, each at most once: it connects to port 43 of the
\* candidate, writes the trimmed, lowercased domain followed by CRLF only on a
\* connection that was opened, reads only after the write, closes a connection
\* it opened, and parses only what a read without error returned.
C25_AttemptOrder ==
  \A c \in Callers :
    Whois(c) =>
      /\ \A i \in 1..Len(steps[c]) : steps[c][i].attempt \in 1..Len(attempted[c])
      /\ \A a \in 1..Len(attempted[c]) :
           LET sq == AttemptSteps(c, a)
               at(op) == { i \in 1..Len(sq) : sq[i].op = op }
           IN  /\ Len(sq) >= 1 /\ sq[1].op = "dial"
               /\ sq[1].target = [host |-> servers[c][a], port |-> 43]
               /\ \A op \in {"dial", "write", "read", "parse", "close"} :
                    Cardinality(at(op)) <= 1
               /\ \A i, j \in 1..Len(sq) : i < j => << sq[i].op, sq[j].op >> \in MayFollow
               /\ Len(sq) > 1 => sq[1].ok
               /\ \A i \in at("write") :
                    sq[i].bytes = ToLower(TrimSpace(query[c].domain)) \o << "\r", "\n" >>
               /\ \A i \in at("read") : \E j \in at("write") : j < i /\ sq[j].ok
               /\ \A i \in at("parse") : \E j \in at("read") : j < i /\ sq[j].ok
               /\ (a <= Len(outcomes[c]) /\ sq[1].ok) => at("close") # {}

\* a lookup whose first attempt ended on a failed read and whose second was
\* answered
C25_Witness ==
  \E c \in Callers :
    /\ Whois(c) /\ Returned(c) /\ Len(attempted[c]) = 2
    /\ Len(AttemptSteps(c, 1)) = 4 /\ ~AttemptSteps(c, 1)[3].ok
    /\ Len(AttemptSteps(c, 2)) = 5 /\ AttemptSteps(c, 2)[4].op = "parse"

\* ------------------------------------ properties of the parser, continued
\* C28: a turn of the loop on a line that matches the expression of a date
\* field with a text parseDate does not parse leaves the field as it was, also
\* when an earlier line has set it; a date field changes only in a turn on a
\* matching line whose text parses, and then to the time parsed.
C28_DateKeptOnUnparseable ==
  [][parsing = "loop" =>
       \A f \in DOMAIN DateFields :
         LET hit  == lineNo \in Hits(DateFields[f], lineNo)
             date == parseDate(ValueAt(DateFields[f], lineNo))
         IN  /\ (hit /\ IsZero(date)) => info'[f] = info[f]
             /\ info'[f] # info[f] => (hit /\ ~IsZero(date) /\ info'[f] = date)]_vars

\* a creation date has been kept over a later creation line that does not parse
C28_Witness ==
  /\ parsing = "returned"
  /\ whoisLines[1] = Chars("Creation Date: 2020-01-02T03:04:05Z")
  /\ whoisLines[2] = Chars("Created: soon")
  /\ info.CreationDate = Date(2020, 1, 2, 3, 4, 5, 0)

\* ----------------------------------------------- properties of parseDate
\* the layouts that parse the text
ParsingLayouts(s) == { f \in 1..Len(formats) : Parse(formats[f], s).ok }

\* C23: parseDate returns what the first layout of its list that parses the
\* trimmed text makes of it, and the zero time when none does; the zero time
\* is returned for no text that a layout parses.
C23_FirstLayoutOrAbsent ==
  (call.fn = "parseDate" /\ ret # NoReturn) =>
    LET s    == TrimSpace(call.dateStr)
        good == ParsingLayouts(s)
    IN  /\ good # {} =>
              ret.value = Parse(formats[CHOOSE f \in good : \A g \in good : f <= g], s).t
        /\ good = {} => IsZero(ret.value)
        /\ IsZero(ret.value) => good = {}

\* the fields of a time that a layout shows, the others being zero
Carried(layout, t) ==
  [year   |-> t.year, month |-> t.month, day |-> t.day,
   hour   |-> IF "15" \in Range(layout) THEN t.hour ELSE 0,
   min    |-> IF "04" \in Range(layout) THEN t.min ELSE 0,
   sec    |-> IF "05" \in Range(layout) THEN t.sec ELSE 0,
   offset |-> IF "Z07:00" \in Range(layout) THEN t.offset ELSE 0,
   nsec   |-> 0]

\* C24 as stated: the text Time.Format makes of a time in a supported layout is
\* parsed by parseDate to that time.
C24_RoundTrip ==
  (call.fn = "parseDate" /\ call.layout > 0 /\ ret # NoReturn) =>
    Instant(ret.value) = Instant(call.time)

\* C24, amended: for a time of the years 1 to 9999, the text Time.Format makes
\* of it in a supported layout is parsed by parseDate to the fields the layout
\* shows, the others being zero and the zone UTC when the layout shows none; so
\* the time comes back exactly when it has no other fields.
C24_RoundTripOfShownFields ==
  (call.fn = "parseDate" /\ call.layout > 0 /\ ret # NoReturn
     /\ call.time.year >= 1 /\ call.time.year <= 9999) =>
    /\ ret.value = Carried(DateLayouts[call.layout], call.time)
    /\ Instant(ret.value) = Instant(call.time)
         <=> Instant(Carried(DateLayouts[call.layout], call.time)) = Instant(call.time)

\* a time with a day of one digit has come back from the layout 2-Jan-2006
C24_Witness ==
  /\ call.fn = "parseDate" /\ ret # NoReturn
  /\ call.dateStr = Chars("4-Mar-2020")
  /\ call.time = Date(2020, 3, 4, 0, 0, 0, 0)
  /\ ret.value = call.time

\* C29: whatever DNS requests were served or are being served, one after
\* another or at the same time, the shared default record-type list still
\* holds A, AAAA, MX, CNAME, TXT, NS in this order
C29_DefaultsKept ==
  defaultDNSRecordTypes =
    << Chars("A"), Chars("AAAA"), Chars("MX"), Chars("CNAME"), Chars("TXT"), Chars("NS") >>

\* two requests without record_types are about to store into the same entry
\* of the shared list, after an earlier request has been answered from it
C29_Witness ==
  /\ dnsPc[1] = "store" /\ typesToLookup[1].shared
  /\ dnsPc[2] = "store" /\ typesToLookup[2].shared
  /\ rangeIndex[1] = rangeIndex[2]
  /\ rangeIndex[1] > 1

\* the parameters as the query of a URL writes them: every non-empty piece
\* between the & signs, with its key and value unescaped where they can be
RECURSIVE WrittenParameters(_, _)
WrittenParameters(m, rawQuery) ==
  IF rawQuery = <<>> THEN m
  ELSE LET seg  == Cut(rawQuery, "&")
           pair == Cut(seg.before, "=")
           key  == QueryUnescape(pair.before)
           val  == QueryUnescape(pair.after)
       IN  IF seg.before = <<>> THEN WrittenParameters(m, seg.after)
           ELSE WrittenParameters(
                  Add(m, IF key.ok THEN key.s ELSE pair.before,
                         IF val.ok THEN val.s ELSE pair.after), seg.after)

\* the values reported for key k in a list of removed parameters, in order
RECURSIVE ReportedValues(_, _)
ReportedValues(removed, k) ==
  IF removed = <<>> THEN <<>>
  ELSE (IF removed[1].Parameter = k THEN << removed[1].Value >> ELSE <<>>)
       \o ReportedValues(Tail(removed), k)

\* the lower-case form of a key equals an exact rule key or starts with a
\* prefix rule key
RuleCovers(params, k) ==
  \E i \in 1..Len(params) :
    IF params[i].MatchType = "prefix" THEN HasPrefix(ToLower(k), ToLower(params[i].Key))
    ELSE ToLower(k) = ToLower(params[i].Key)

\* res splits the parameters of rawURL into kept and reported ones by the
\* rules, and cleaning its URL again changes nothing
Partitioned(rawURL, params, res) ==
  LET in  == WrittenParameters(NoValues, ParseURL(rawURL).RawQuery)
      out == WrittenParameters(NoValues, ParseURL(res.CleanedURL).RawQuery)
  IN  /\ \A k \in DOMAIN in :
           LET reported == ReportedValues(res.RemovedParams, k)
           IN  /\ (k \in DOMAIN out /\ out[k] = in[k]) \/ reported = in[k]
               /\ ~(k \in DOMAIN out /\ reported # <<>>)
               /\ reported # <<>> <=> RuleCovers(params, k)
      /\ \A o \in RemovedOrders(res.CleanedURL, params) :
           CleanURL(res.CleanedURL, params, o) =
             [CleanedURL |-> res.CleanedURL, RemovedParams |-> <<>>]

\* C30: CleanURL partitions the query parameters of its input: each key is
\* kept in the cleaned URL with all its values or reported in RemovedParams
\* once per value, never both and never neither; it is reported exactly when
\* its lower-case form equals an exact rule key or starts with a prefix rule
\* key; and cleaning the cleaned URL again removes nothing and returns it
C30_CleanURLPartitions ==
  (call.fn = "CleanURL" /\ ret # NoReturn) =>
    Partitioned(call.rawURL, call.params, ret.value)

====
